---- MODULE Spec2Model ----
(***************************************************************************)
(* The object storage engine of openpathsampling/storage/object_storage.py *)
(* as a state machine.  One ObjectStore per prefix; every public call      *)
(* (save, load, cache_all, clear_cache) is one action that applies the     *)
(* whole decorator chain the constructor installs, nested saves and loads  *)
(* included.  The call chain is written as operators over a "world"        *)
(* record w = [st, objs, ret, err, out]: the stores, the heap of object    *)
(* instances, the value returned, the exception raised and a scratch       *)
(* result; w.read says whether the call has read a variable or the        *)
(* dimension of the backing store.                                         *)
(***************************************************************************)
EXTENDS Integers, Sequences, FiniteSets, TLC

VARIABLES
    st,      \* store prefix -> the ObjectStore instance and its netCDF columns
    objs,    \* the heap: instance id -> object (its fields and attributes)
    last,    \* the last completed top-level call and its outcome
    held,    \* the object the caller kept from an earlier load
    nexp,    \* how many saves with an explicit index the caller has made
    iters,   \* the ObjectIterator instances the caller has
    threads, \* thread -> where it is in a save call that has not returned
    overlapped \* whether a save call began while another had not returned

vars == <<st, objs, last, held, nexp, iters, threads, overlapped>>

----------------------------------------------------------------------------
(* Bounds *)

\* live instances on the heap (application objects plus objects built by
\* loads that are still referenced)
MaxInst == 6
\* largest explicit index passed to save(obj, idx), and how often the caller
\* passes one
MaxIdx == 1
MaxExplicit == 1
\* the interpreter's recursion limit, counted in nested store calls
MaxDepth == 4
MaxReserve == 2
\* iterators the caller has at a time
MaxIters == 2

\* threads of the process that call save on the storage
MaxThreads == 2

----------------------------------------------------------------------------
(* Values *)

Stores == {"X", "Y"}

NoIdx == -1                   \* `self not in obj.idx`
NoObj == 0                    \* Python None where an object is expected
NoErr == ""
pyNone == "<None>"            \* _name is None
Absent == "<absent>"          \* not hasattr(obj, '_uid')
Names == {"a", "b"}

\* the argument idx of save and load: None, an int or a str
NoneArg == [kind |-> "none", i |-> 0, s |-> ""]
IntArg(i) == [kind |-> "int", i |-> i, s |-> ""]
StrArg(n) == [kind |-> "str", i |-> 0, s |-> n]

\* a serialized object: its class, its data and, for every storable field,
\* the (store prefix, index) reference
Payload(cls, val, refs) == [cls |-> cls, val |-> val, refs |-> refs]
Unwritten == Payload("", 0, <<>>)      \* the fill value '' of a str variable
NoAttr == Payload("-", 0, <<>>)        \* not hasattr(obj, 'json')

Range(f) == {f[x] : x \in DOMAIN f}

RECURSIVE Pad(_, _, _)
Pad(seq, n, fill) == IF Len(seq) >= n THEN seq ELSE Pad(Append(seq, fill), n, fill)

Return(w, v) == [w EXCEPT !.ret = v, !.err = NoErr]
Raise(w, e) == [w EXCEPT !.ret = -1, !.err = e]

\* the call reads a variable or the dimension of the backing store
Reads(w) == [w EXCEPT !.read = TRUE]

\* an exception ends the call: what follows a statement runs only if the
\* statement raised nothing
Then(w1, rest(_)) == IF w1.err # NoErr THEN w1 ELSE rest(w1)

----------------------------------------------------------------------------
(* The netCDF substrate: variables <prefix>_json, <prefix>_name and        *)
(* <prefix>_uid share the unlimited dimension <prefix>; an assignment      *)
(* beyond its length grows the dimension and fills the new rows of every   *)
(* variable with the fill value.                                           *)

Grow(S, n) ==
    [S EXCEPT !.json = Pad(S.json, n, Unwritten),
              !.name = Pad(S.name, n, ""),
              !.uid = Pad(S.uid, n, "")]

\* self.storage.variables[name][idx] = value
save_variable(S, name, idx, value) ==
    CASE name = "json" -> [Grow(S, idx + 1) EXCEPT !.json[idx + 1] = value]
      [] name = "name" -> [Grow(S, idx + 1) EXCEPT !.name[idx + 1] = value]
      [] name = "uid" -> [Grow(S, idx + 1) EXCEPT !.uid[idx + 1] = value]

\* int(len(self.storage.dimensions[self.prefix]))
count(S) == Len(S.json)

\* the storage has no dimension and no variables of a store before _init()
\* of the store has made them: looking one up raises KeyError
NoDimension(w, s) == ~w.st[s].inited

----------------------------------------------------------------------------
(* Index allocation *)

\* free(): drops the reservations below count() and returns the first index
\* from count() on that is not reserved
RECURSIVE free_skip(_, _)
free_skip(reserved, idx) == IF idx \in reserved THEN free_skip(reserved, idx + 1) ELSE idx

free_noskip(w, s) ==
    Return([w EXCEPT !.st[s]._free = {i \in @ : i >= count(w.st[s])}], count(w.st[s]))

free(w, s) ==
    IF NoDimension(w, s) THEN Raise(w, "KeyError")
    ELSE LET c == count(w.st[s])
             kept == {i \in w.st[s]._free : i >= c}
         IN Return(Reads([w EXCEPT !.st[s]._free = kept]), free_skip(kept, c))

reserve_idx_noop(w, s, idx) == w

\* as reserve_idx, but with one reserved set for all stores
reserve_idx_global(w, s, idx) ==
    [w EXCEPT !.st = [t \in Stores |-> [@[t] EXCEPT !._free = @ \cup {idx}]]]

\* as reserve_idx, but the slot is reserved by growing the dimension
reserve_idx_grow(w, s, idx) ==
    [w EXCEPT !.st[s] = Grow([@ EXCEPT !._free = @ \cup {idx}], idx + 1)]

reserve_idx(w, s, idx) == [w EXCEPT !.st[s]._free = @ \cup {idx}]

----------------------------------------------------------------------------
(* The name index *)

\* `name in self.cache`: the cache is only ever assigned under int keys
\* (add_single_to_cache, loadcache, savecache), so a str is never a key
StrInCache(S, name) == FALSE

_update_name_in_cache(S, name, idx) ==
    IF name = "" THEN S
    ELSE IF ~StrInCache(S, name)
         THEN [S EXCEPT !.name_idx = (name :> <<idx>>) @@ @]
         ELSE S

\* update_name_cache(): one pass over the name column, first time only
RECURSIVE update_names_from(_, _)
update_names_from(S, k) ==
    IF k > Len(S.name) THEN S
    ELSE update_names_from(_update_name_in_cache(S, S.name[k], k - 1), k + 1)

update_name_cache(S) ==
    IF S.has_name /\ ~S._names_loaded
    THEN [update_names_from(S, 1) EXCEPT !._names_loaded = TRUE]
    ELSE S

\* self.update_name_cache() within a call: the pass reads the name column
update_names(w, s) ==
    IF w.st[s].has_name /\ ~w.st[s]._names_loaded
    THEN IF NoDimension(w, s) THEN Raise(w, "KeyError")
         ELSE Reads([w EXCEPT !.st[s] = update_name_cache(@)])
    ELSE w

----------------------------------------------------------------------------
(* save: savecache(saveidx(ObjectStore.save)) *)

RECURSIVE store_save(_, _, _, _, _)
RECURSIVE to_json_refs(_, _, _, _, _)

\* simplifier.to_json_object(obj, ...): every storable field is saved into
\* the store of its class and replaced by (prefix, index); None becomes -1
to_json_refs(w, o, k, acc, d) ==
    IF k > Len(w.objs[o].refs)
    THEN [w EXCEPT !.out = Payload(w.objs[o].cls, w.objs[o].val, acc)]
    ELSE IF w.objs[o].refs[k] = NoObj
         THEN to_json_refs(w, o, k + 1, Append(acc, [st |-> "", i |-> -1]), d)
         ELSE Then(store_save(w, w.objs[w.objs[o].refs[k]].cls, w.objs[o].refs[k],
                              NoneArg, d + 1),
                   LAMBDA w1 : to_json_refs(w1, o, k + 1,
                                   Append(acc, [st |-> w.objs[w.objs[o].refs[k]].cls,
                                                i |-> w1.ret]), d))

object_to_json(w, s, o, d) == to_json_refs(w, o, 1, <<>>, d)

\* as save_json, but the object is serialized at every save
save_json_again(w, s, o, idx, d) ==
    Then(Then(object_to_json(w, s, o, d),
              LAMBDA wj : [wj EXCEPT !.objs[o].json = wj.out]),
         LAMBDA w1 : IF NoDimension(w1, s) THEN Raise(w1, "KeyError")
                     ELSE [w1 EXCEPT !.st[s] = save_variable(@, "json", idx,
                                                             w1.objs[o].json)])

save_json(w, s, o, idx, d) ==
    Then(IF w.objs[o].json = NoAttr
         THEN Then(object_to_json(w, s, o, d),
                   LAMBDA wj : [wj EXCEPT !.objs[o].json = wj.out])
         ELSE w,
         LAMBDA w1 : IF NoDimension(w1, s) THEN Raise(w1, "KeyError")
                     ELSE [w1 EXCEPT !.st[s] = save_variable(@, "json", idx,
                                                             w1.objs[o].json)])

ObjectStore_save(w, s, o, idx, d) ==
    IF w.st[s].has_uid /\ w.objs[o].uid # Absent /\ NoDimension(w, s)
    THEN Raise(w, "KeyError")
    ELSE save_json(IF w.st[s].has_uid /\ w.objs[o].uid # Absent
                   THEN [w EXCEPT !.st[s] = save_variable(@, "uid", idx, w.objs[o].uid)]
                   ELSE w,
                   s, o, idx, d)

\* saveidx.inner after func(obj, idx): the uid and the name of the object
saveidx_uid(w, s, o, idx) ==
    IF w.st[s].has_uid /\ w.objs[o].uid \notin {Absent, ""}
    THEN [w EXCEPT !.st[s] = save_variable(@, "uid", idx, w.objs[o].uid)]
    ELSE w

saveidx_name(w, s, o, idx) ==
    IF ~w.st[s].has_name THEN Return(w, idx)
    ELSE IF w.objs[o].name = pyNone THEN Raise(w, "AttributeError")
    ELSE Return([w EXCEPT !.objs[o].fixed = TRUE,
                          !.st[s] = save_variable(@, "name", idx, w.objs[o].name)],
                idx)

\* obj.idx[self] = idx; self.reserve_idx(idx)
saveidx_reserve(w, s, o, idx) == reserve_idx([w EXCEPT !.objs[o].idx[s] = idx], s, idx)

\* func(obj, idx) and what saveidx.inner does after it
saveidx_func(w, s, o, idx, d) ==
    Then(ObjectStore_save(w, s, o, idx, d),
         LAMBDA w3 : saveidx_name(saveidx_uid(w3, s, o, idx), s, o, idx))

\* saveidx.inner from `obj.idx[self] = idx` on
saveidx_write(w, s, o, idx, d) ==
    saveidx_func(saveidx_reserve(w, s, o, idx), s, o, idx, d)

\* idx = self.free()
saveidx_new(wf, s, o, d) == saveidx_write(wf, s, o, wf.ret, d)

saveidx_always_new(w, s, o, arg, d) ==
    IF arg.kind = "str" THEN Raise(w, "ValueError")
    ELSE IF arg.kind = "none" THEN Then(free(w, s), LAMBDA wf : saveidx_new(wf, s, o, d))
    ELSE saveidx_write(w, s, o, arg.i, d)

\* as saveidx_inner, but the type of idx is checked after the index was
\* taken
saveidx_late_check(w, s, o, arg, d) ==
    IF arg.kind = "none"
    THEN IF w.objs[o].idx[s] # NoIdx
         THEN Return(w, w.objs[o].idx[s])
         ELSE Then(free(w, s), LAMBDA wf : saveidx_new(wf, s, o, d))
    ELSE IF arg.kind = "str"
         THEN Raise(reserve_idx([w EXCEPT !.objs[o].idx[s] = count(w.st[s])],
                                s, count(w.st[s])), "ValueError")
         ELSE saveidx_write(w, s, o, arg.i, d)

saveidx_inner(w, s, o, arg, d) ==
    IF arg.kind = "none"
    THEN IF w.objs[o].idx[s] # NoIdx
         THEN Return(w, w.objs[o].idx[s])
         ELSE Then(free(w, s), LAMBDA wf : saveidx_new(wf, s, o, d))
    ELSE IF arg.kind = "str" THEN Raise(w, "ValueError")
         ELSE saveidx_write(w, s, o, arg.i, d)

\* savecache.inner after func(obj, idx)
savecache_store(w, s, o, idx) ==
    Return([w EXCEPT !.st[s] =
               IF @.has_name /\ w.objs[o].name # ""
               THEN _update_name_in_cache([@ EXCEPT !.cache = (idx :> o) @@ @],
                                          w.objs[o].name, idx)
               ELSE [@ EXCEPT !.cache = (idx :> o) @@ @]],
           idx)

savecache_nocache(w, s, o, arg, d) == saveidx_inner(w, s, o, arg, d)

savecache_inner(w, s, o, arg, d) ==
    Then(saveidx_inner(w, s, o, arg, d),
         LAMBDA w1 : savecache_store(w1, s, o, w1.objs[o].idx[s]))

\* self.save as bound by __init__
store_save(w, s, o, arg, d) ==
    IF d > MaxDepth THEN Raise(w, "RecursionError")
    ELSE IF w.st[s].caching THEN savecache_inner(w, s, o, arg, d)
    ELSE saveidx_inner(w, s, o, arg, d)

----------------------------------------------------------------------------
(* load: loadcache(loadidx(ObjectStore.load)) *)

RECURSIVE store_load(_, _, _, _)
RECURSIVE build_refs(_, _, _, _, _)

\* a new instance as the class constructor leaves it
NewObj(cls, val, refs) ==
    [cls |-> cls, val |-> val, refs |-> refs, idx |-> [s \in Stores |-> NoIdx],
     json |-> NoAttr, name |-> "", uid |-> Absent, fixed |-> FALSE, origin |-> "built"]

\* a heap slot that holds no object
FreeSlot == [NewObj("", 0, <<>>) EXCEPT !.origin = "free"]

FreeIds(w) == {k \in DOMAIN w.objs : w.objs[k].origin = "free"}

\* the slot a newly constructed object gets
NewId(w) == CHOOSE k \in FreeIds(w) : \A j \in FreeIds(w) : k <= j

\* simplifier.build(simplified): every (prefix, index) reference is resolved
\* by load(index) on the addressed store, -1 gives None; then the object is
\* constructed
build_refs(w, json, k, acc, d) ==
    IF k > Len(json.refs)
    THEN IF FreeIds(w) = {} THEN Raise(w, "MemoryError")
         ELSE Return([w EXCEPT !.objs[NewId(w)] = NewObj(json.cls, json.val, acc)],
                     NewId(w))
    ELSE IF json.refs[k].i < 0
         THEN build_refs(w, json, k + 1, Append(acc, NoObj), d)
         ELSE Then(store_load(w, json.refs[k].st, IntArg(json.refs[k].i), d + 1),
                   LAMBDA w1 : build_refs(w1, json, k + 1, Append(acc, w1.ret), d))

\* yaml.load('') is None and nothing can be built from it: the following
\* setattr(obj, 'json', ...) raises
build(w, json, d) ==
    IF json = Unwritten THEN Raise(w, "AttributeError")
    ELSE build_refs(w, json, 1, <<>>, d)

load_json(w, s, idx, d) ==
    Then(build(w, w.st[s].json[idx + 1], d),
         LAMBDA w1 : [w1 EXCEPT !.objs[w1.ret].json = w.st[s].json[idx + 1]])

ObjectStore_load(w, s, idx, d) == load_json(w, s, idx, d)

\* loadidx.inner after func(n_idx): the index, the uid and the name of obj
loadidx_attrs(w, s, obj, n_idx) ==
    Return([w EXCEPT !.objs[obj] =
               [@ EXCEPT !.idx[s] = n_idx,
                         !.uid = IF w.st[s].has_uid /\ @ = Absent
                                 THEN w.st[s].uid[n_idx + 1] ELSE @,
                         !.name = IF w.st[s].has_name
                                  THEN w.st[s].name[n_idx + 1] ELSE @,
                         !.fixed = IF w.st[s].has_name THEN TRUE ELSE @]],
           obj)

loadidx_norange(w, s, arg, d) ==
    IF arg.kind = "str" THEN Raise(w, "ValueError")
    ELSE IF NoDimension(w, s) THEN Raise(w, "KeyError")
    ELSE IF arg.i + 1 \notin DOMAIN w.st[s].json THEN Raise(w, "IndexError")
    ELSE Then(ObjectStore_load(w, s, arg.i, d),
              LAMBDA w1 : loadidx_attrs(w1, s, w1.ret, arg.i))

loadidx_inner(w, s, arg, d) ==
    IF arg.kind = "int" /\ arg.i < 0 THEN Return(w, NoObj)
    ELSE IF arg.kind = "str" THEN Raise(w, "ValueError")
    ELSE IF NoDimension(w, s) THEN Raise(w, "KeyError")
    ELSE IF arg.i >= count(w.st[s]) THEN Return(Reads(w), NoObj)
    ELSE Then(ObjectStore_load(Reads(w), s, arg.i, d),
              LAMBDA w1 : loadidx_attrs(w1, s, w1.ret, arg.i))

\* loadcache.inner after func(n_idx), for an obj that is not None
loadcache_store(w, s, obj, n_idx) ==
    Return([w EXCEPT !.st[s] =
               IF @.has_name /\ w.objs[obj].name # ""
               THEN _update_name_in_cache(
                        [@ EXCEPT !.cache = (w.objs[obj].idx[s] :> obj) @@ @],
                        w.objs[obj].name, n_idx)
               ELSE [@ EXCEPT !.cache = (w.objs[obj].idx[s] :> obj) @@ @]],
           obj)

\* loadcache.inner from `if n_idx in self.cache` on
loadcache_nostore(w, s, n_idx, d) ==
    IF n_idx \in DOMAIN w.st[s].cache THEN Return(w, w.st[s].cache[n_idx])
    ELSE loadidx_inner(w, s, IntArg(n_idx), d)

loadcache_lookup(w, s, n_idx, d) ==
    IF n_idx \in DOMAIN w.st[s].cache THEN Return(w, w.st[s].cache[n_idx])
    ELSE Then(loadidx_inner(w, s, IntArg(n_idx), d),
              LAMBDA w1 : IF w1.ret = NoObj THEN w1
                          ELSE loadcache_store(w1, s, w1.ret, n_idx))

\* as loadcache_name, but a name that is not found gives None
loadcache_name_none(w, s, name, d) ==
    IF name \notin DOMAIN w.st[s].name_idx THEN Return(w, NoObj)
    ELSE IF Len(w.st[s].name_idx[name]) > 1 THEN Raise(w, "KeyError")
    ELSE loadcache_lookup(w, s, w.st[s].name_idx[name][1], d)

\* loadcache.inner for a str idx on a named store, after update_name_cache()
loadcache_name(w, s, name, d) ==
    IF name \notin DOMAIN w.st[s].name_idx THEN Raise(w, "ValueError")
    \* the debug message reads len(self.cache[idx]) with the str
    ELSE IF Len(w.st[s].name_idx[name]) > 1 THEN Raise(w, "KeyError")
    ELSE loadcache_lookup(w, s, w.st[s].name_idx[name][1], d)

loadcache_nolookup(w, s, arg, d) == loadidx_inner(w, s, arg, d)

loadcache_inner(w, s, arg, d) ==
    IF arg.kind = "int" /\ arg.i < 0 THEN Return(w, NoObj)
    ELSE IF arg.kind = "int" THEN loadcache_lookup(w, s, arg.i, d)
    ELSE IF ~w.st[s].has_name
         \* the str is no key of the cache: the wrapped load gets it
         THEN loadidx_inner(w, s, arg, d)
         ELSE Then(update_names(w, s),
                   LAMBDA w1 : loadcache_name(w1, s, arg.s, d))

\* as store_load, but with loadcache around the load of every store
store_load_cached(w, s, arg, d) ==
    IF d > MaxDepth THEN Raise(w, "RecursionError")
    ELSE loadcache_inner(w, s, arg, d)

\* self.load as bound by __init__
store_load(w, s, arg, d) ==
    IF d > MaxDepth THEN Raise(w, "RecursionError")
    ELSE IF w.st[s].caching THEN loadcache_inner(w, s, arg, d)
    ELSE loadidx_inner(w, s, arg, d)

----------------------------------------------------------------------------
(* cache_all, clear_cache *)

\* add_single_to_cache after simplifier.build
add_single_attrs(w, s, obj, idx, json) ==
    [w EXCEPT !.objs[obj] =
                 [@ EXCEPT !.json = json,
                           !.idx[s] = idx,
                           !.name = IF w.st[s].has_name
                                    THEN w.st[s].name[idx + 1] ELSE @,
                           !.uid = IF w.st[s].has_uid /\ @ = Absent
                                   THEN w.st[s].uid[idx + 1] ELSE @],
              !.st[s] =
                 IF @.has_name
                 THEN _update_name_in_cache([@ EXCEPT !.cache = (idx :> obj) @@ @],
                                            @.name[idx + 1], idx)
                 ELSE [@ EXCEPT !.cache = (idx :> obj) @@ @]]

\* as add_single_to_cache, but without the test `idx not in self.cache`
add_single_always(w, s, idx, json, d) ==
    Then(build(w, json, d + 1),
         LAMBDA w1 : add_single_attrs(w1, s, w1.ret, idx, json))

add_single_to_cache(w, s, idx, json, d) ==
    IF idx \in DOMAIN w.st[s].cache THEN w
    ELSE Then(build(w, json, d + 1),
              LAMBDA w1 : add_single_attrs(w1, s, w1.ret, idx, json))

RECURSIVE cache_all_from(_, _, _, _)
cache_all_from(w, s, jsons, k) ==
    IF k > Len(jsons) THEN w
    ELSE Then(add_single_to_cache(w, s, k - 1, jsons[k], 0),
              LAMBDA w1 : cache_all_from(w1, s, jsons, k + 1))

cache_all(w, s) ==
    IF w.st[s]._cached_all THEN Return(w, NoObj)
    ELSE IF NoDimension(w, s) THEN Raise(w, "KeyError")
    ELSE Then(cache_all_from(Reads(w), s, w.st[s].json, 1),
              LAMBDA w1 : Return([w1 EXCEPT !.st[s]._cached_all = TRUE], NoObj))

clear_cache(w, s) ==
    Return([w EXCEPT !.st[s].cache = <<>>, !.st[s]._cached_all = FALSE], NoObj)

\* a new WeakLimitCache(1000000): it holds no entry
WeakLimitCache == <<>>

\* the values set_caching is called with: None, an int n, True, and a dict
\* (the empty dict)
CachingArgs == {"None", "int", "True", "dict"}

\* set_caching(caching): None stands for default_cache, an int; an int is
\* neither True nor a dict, so nothing is assigned
set_caching(w, s, caching) ==
    IF caching = "True" THEN Return([w EXCEPT !.st[s].cache = WeakLimitCache], NoObj)
    ELSE IF caching = "dict" THEN Return([w EXCEPT !.st[s].cache = <<>>], NoObj)
    ELSE Return(w, NoObj)

----------------------------------------------------------------------------
(* Lookup by name: __getitem__, find, find_indices, find_first, idx_by_name *)

\* __getitem__ without its except clause
getitem_noexcept(w1) == w1

\* __getitem__ returns None when the load raises KeyError
getitem_except(w1) == IF w1.err = "KeyError" THEN Return(w1, NoObj) ELSE w1

\* self[item] for an int or a str
getitem(w, s, arg) == getitem_except(store_load(w, s, arg, 1))

\* self[item] for a list of int: [self.load(idx) for idx in item]; a load
\* by int raises no KeyError
RECURSIVE getitem_list(_, _, _, _, _)
getitem_list(w, s, item, k, acc) ==
    IF k > Len(item) THEN Return(w, acc)
    ELSE Then(store_load(w, s, IntArg(item[k]), 1),
              LAMBDA w1 : getitem_list(w1, s, item, k + 1, Append(acc, w1.ret)))

\* self[item] for a list of int and str, before the except clause
RECURSIVE getitem_loads(_, _, _, _, _)
getitem_loads(w, s, item, k, acc) ==
    IF k > Len(item) THEN Return(w, acc)
    ELSE Then(store_load(w, s, item[k], 1),
              LAMBDA w1 : getitem_loads(w1, s, item, k + 1, Append(acc, w1.ret)))

\* a slice: start, stop and step are <<>> for None and <<n>> for the int n
Slice(start, stop, step) == [start |-> start, stop |-> stop, step |-> step]

Max(a, b) == IF a >= b THEN a ELSE b
Min(a, b) == IF a <= b THEN a ELSE b

\* slice.indices(length): the step, the start and the stop that range gets
slice_step(item) == IF item.step = <<>> THEN 1 ELSE item.step[1]

slice_bound(bound, length, step) ==
    IF bound[1] < 0
    THEN Max(bound[1] + length, IF step < 0 THEN -1 ELSE 0)
    ELSE Min(bound[1], IF step < 0 THEN length - 1 ELSE length)

slice_start(item, length) ==
    IF item.start = <<>>
    THEN IF slice_step(item) < 0 THEN length - 1 ELSE 0
    ELSE slice_bound(item.start, length, slice_step(item))

slice_stop(item, length) ==
    IF item.stop = <<>>
    THEN IF slice_step(item) < 0 THEN -1 ELSE length
    ELSE slice_bound(item.stop, length, slice_step(item))

RECURSIVE range(_, _, _)
range(start, stop, step) ==
    IF (step > 0 /\ start >= stop) \/ (step < 0 /\ start <= stop) THEN <<>>
    ELSE <<IntArg(start)>> \o range(start + step, stop, step)

\* self[item] for a slice, before the except clause: len(self) reads the
\* dimension of the store; a step of 0 is refused by slice.indices
getitem_slice(w, s, item) ==
    IF NoDimension(w, s) THEN Raise(w, "KeyError")
    ELSE IF slice_step(item) = 0 THEN Raise(Reads(w), "ValueError")
    ELSE getitem_loads(Reads(w), s,
                       range(slice_start(item, count(w.st[s])),
                             slice_stop(item, count(w.st[s])),
                             slice_step(item)),
                       1, <<>>)

\* len(store)
__len__(w, s) ==
    IF NoDimension(w, s) THEN Raise(w, "KeyError")
    ELSE Return(Reads(w), count(w.st[s]))

\* if name not in self.name_idx: self.update_name_cache()
find_update(w, s, name) ==
    IF name \notin DOMAIN w.st[s].name_idx THEN update_names(w, s) ELSE w

\* self[self.name_idx[name]]
find_get(w, s, name) ==
    IF name \notin DOMAIN w.st[s].name_idx THEN Raise(w, "KeyError")
    ELSE getitem_list(w, s, w.st[s].name_idx[name], 1, <<>>)

find(w, s, name) ==
    IF w.st[s].has_name THEN find_get(find_update(w, s, name), s, name)
    ELSE Return(w, <<>>)

\* return self.name_idx[name]
find_indices_get(w, s, name) ==
    IF name \notin DOMAIN w.st[s].name_idx THEN Raise(w, "KeyError")
    ELSE Return(w, w.st[s].name_idx[name])

find_indices(w, s, name) ==
    IF w.st[s].has_name THEN find_indices_get(find_update(w, s, name), s, name)
    ELSE Return(w, <<>>)

\* if len(self.name_idx[name]) > 0: return self[self.name_idx[name][0]]
find_first_get(w, s, name) ==
    IF name \notin DOMAIN w.st[s].name_idx THEN Raise(w, "KeyError")
    ELSE IF Len(w.st[s].name_idx[name]) > 0
         THEN getitem(w, s, IntArg(w.st[s].name_idx[name][1]))
         ELSE Return(w, NoObj)

find_first(w, s, name) ==
    IF w.st[s].has_name THEN find_first_get(find_update(w, s, name), s, name)
    ELSE Return(w, NoObj)

\* the first row of the identifier (uid) column that holds needle
FoundIdx(S, needle) == {i \in DOMAIN S.uid : S.uid[i] = needle}

\* keyed on has_uid; a str is never a key of cache, so the identifier column
\* is always searched; None is returned as NoIdx
idx_by_name(w, s, needle) ==
    IF w.st[s].has_uid /\ NoDimension(w, s) THEN Raise(w, "KeyError")
    ELSE IF w.st[s].has_uid
    THEN IF FoundIdx(w.st[s], needle) # {}
         THEN Return(Reads(w), (CHOOSE i \in FoundIdx(w.st[s], needle) :
                                  \A j \in FoundIdx(w.st[s], needle) : i <= j) - 1)
         ELSE Return(Reads(w), NoIdx)
    ELSE Raise(w, "ValueError")

----------------------------------------------------------------------------
(* Conversion of lists: list_to_numpy, list_from_numpy, load_object *)

\* astype(np.int32): the integers of the model are 32-bit signed integers
\* themselves, on which the conversion is the identity
Int32(n) == n
\* astype(np.uint8): the value in the width of the type
UInt8(n) == n % 256

\* astype(np.float32) of an integer below 2^25: 24 bits of mantissa, so
\* from 2^24 on an odd integer becomes the neighbour whose half is even
Float32(n) ==
    IF n <= 16777216 /\ n >= -16777216 THEN n
    ELSE IF n % 2 = 0 THEN n
    ELSE IF (n + 1) % 4 = 0 THEN n + 1 ELSE n - 1

\* the declared value types of a variable
ValueTypes == {"float", "int", "index", "length", "bool", "str"}

\* _parse_var_type_as_np_type(var_type): types[var_type]
_parse_var_type_as_np_type(var_type) ==
    CASE var_type = "float" -> "float32"
      [] var_type = "int" -> "int32"
      [] var_type = "index" -> "int32"
      [] var_type = "length" -> "int32"
      [] var_type = "bool" -> "uint8"
      [] var_type = "str" -> "str"
      [] OTHER -> "KeyError"

\* the element type of the array list_to_numpy returns
list_to_numpy_dtype(value_type) ==
    CASE value_type = "int" -> "float32"
      [] value_type = "float" -> "float32"
      [] value_type = "bool" -> "uint8"
      [] value_type = "index" -> "int32"
      [] value_type = "length" -> "int32"
      [] OTHER -> "int32"

\* np.array(data).astype(t) of a list of integers
AsType(data, dtype) ==
    [k \in DOMAIN data |->
        CASE dtype = "float32" -> Float32(data[k])
          [] dtype = "uint8" -> UInt8(data[k])
          [] OTHER -> Int32(data[k])]

\* [-1 if value is None and allow_empty is True else value.idx[self]
\*  for value in data]: None has no attribute idx, and obj.idx has no key
\* self when obj was not saved in this store
RECURSIVE object_indices(_, _, _, _, _, _)
object_indices(w, s, data, allow_empty, k, acc) ==
    IF k > Len(data) THEN Return(w, acc)
    ELSE IF data[k] = NoObj
         THEN IF allow_empty
              THEN object_indices(w, s, data, allow_empty, k + 1, Append(acc, -1))
              ELSE Raise(w, "AttributeError")
         ELSE IF w.objs[data[k]].idx[s] = NoIdx THEN Raise(w, "KeyError")
         ELSE object_indices(w, s, data, allow_empty, k + 1,
                             Append(acc, w.objs[data[k]].idx[s]))

\* list_to_numpy(data, value_type, allow_empty)
list_to_numpy(w, s, data, value_type, allow_empty) ==
    IF value_type \in {"int", "float", "bool", "index", "length"}
    THEN Return(w, AsType(data, list_to_numpy_dtype(value_type)))
    ELSE Then(object_indices(w, s, data, allow_empty, 1, <<>>),
              LAMBDA w1 : Return(w1, AsType(w1.ret, "int32")))

\* [key_store.load(obj_idx) if allow_empty is False or obj_idx >= 0 else None
\*  for obj_idx in values.tolist()]
RECURSIVE loaded_objects(_, _, _, _, _, _)
loaded_objects(w, key_store, values, allow_empty, k, acc) ==
    IF k > Len(values) THEN Return(w, acc)
    ELSE IF allow_empty /\ values[k] < 0
         THEN loaded_objects(w, key_store, values, allow_empty, k + 1,
                             Append(acc, NoObj))
         ELSE Then(store_load(w, key_store, IntArg(values[k]), 1),
                   LAMBDA w1 : loaded_objects(w1, key_store, values, allow_empty,
                                              k + 1, Append(acc, w1.ret)))

\* list_from_numpy(values, value_type, allow_empty); key_store is
\* getattr(self.storage, value_type)
list_from_numpy(w, s, values, value_type, allow_empty) ==
    IF value_type \in {"int", "float", "bool", "index", "length"}
    THEN Return(w, values)
    ELSE loaded_objects(w, value_type, values, allow_empty, 1, <<>>)

\* load_object(name, idx, store), where index is what the variable
\* <name>_idx holds at idx
load_object(w, index, store) ==
    IF index < 0 THEN Return(Reads(w), NoObj)
    ELSE store_load(Reads(w), store, IntArg(index), 1)

----------------------------------------------------------------------------
(* Construction *)

\* ObjectStore.__init__ followed by _init on a new file
\* `caching` is whether the caching argument `is not False`; caching_n is
\* the argument when it is an int, and 0 when it is not
NewStore(caching, has_name, has_uid) ==
    [caching |-> caching, caching_n |-> 0, inited |-> TRUE,
     has_name |-> has_name, has_uid |-> has_uid,
     json |-> <<>>, name |-> <<>>, uid |-> <<>>,
     cache |-> <<>>, name_idx |-> <<>>, _free |-> {},
     _cached_all |-> FALSE, _names_loaded |-> FALSE]

\* the int n of ObjectStore(..., caching=n)
CacheLimit == 1

\* ObjectStore(content_class, caching=n): an int `is not False`, and __init__
\* makes no other use of it
NewStoreLimited(n, has_name, has_uid) ==
    [NewStore(TRUE, has_name, has_uid) EXCEPT !.caching_n = n]

\* an object the application made
App(cls, val, refs, name, uid) ==
    [NewObj(cls, val, refs) EXCEPT !.name = name, !.uid = uid, !.origin = "app"]

Heap(h) == [k \in 1..MaxInst |-> IF k <= Len(h) THEN h[k] ELSE FreeSlot]

NoCall == [op |-> "init", s |-> "", o |-> NoObj, arg |-> NoneArg,
           ret |-> -1, list |-> <<>>, err |-> NoErr, pre |-> NoIdx, hit |-> FALSE,
           read |-> FALSE, it |-> 0, data |-> <<>>, allow_empty |-> TRUE,
           dtype |-> "", none |-> FALSE]

\* no ObjectIterator has been made
NoIter == [s |-> "", idx |-> 0, end |-> 0]

Threads == 1..MaxThreads
\* a thread that is not inside a save call
NoThread == [pc |-> "idle", s |-> "", o |-> NoObj, idx |-> NoIdx, pre |-> NoIdx]

\* the caller holds no object
NoHeld == [s |-> "", arg |-> NoneArg, obj |-> NoObj, cleared |-> FALSE]

InitOn(configs, heaps) ==
    /\ st \in configs
    /\ objs \in {Heap(h) : h \in heaps}
    /\ last = NoCall
    /\ held = NoHeld
    /\ nexp = 0
    /\ iters = [k \in 1..MaxIters |-> NoIter]
    /\ threads = [t \in Threads |-> NoThread]
    /\ overlapped = FALSE

\* One store with every option on, and one without cache, names and uids.
Configs ==
    { [s \in Stores |-> NewStore(TRUE, TRUE, TRUE)],
      [s \in Stores |-> NewStore(FALSE, FALSE, FALSE)] }

\* Two objects of one store: B holds A in two fields; A and B hold each
\* other; B holds A and has no name yet.
Heaps ==
    { <<App("X", 1, <<>>, "a", "u"), App("X", 2, <<1, 1>>, "a", Absent)>>,
      <<App("X", 1, <<2>>, "a", "u"), App("X", 2, <<1>>, "", "")>>,
      <<App("X", 1, <<>>, "b", Absent), App("X", 2, <<1>>, pyNone, "u")>> }

\* Two caching stores, the first with names and the second with uids.
GraphConfigs ==
    { [s \in Stores |-> IF s = "X" THEN NewStore(TRUE, TRUE, FALSE)
                                   ELSE NewStore(TRUE, FALSE, TRUE)] }

\* Object graphs over both stores: A and B hold each other through the
\* second store; C holds A directly and through B; a cycle of three.
GraphHeaps ==
    { <<App("X", 1, <<2>>, "a", "u"), App("Y", 2, <<1>>, "", Absent)>>,
      <<App("X", 1, <<>>, "", "u"), App("Y", 2, <<1>>, "b", "u"),
        App("X", 3, <<1, 2>>, "b", Absent)>>,
      <<App("X", 1, <<2>>, "a", Absent), App("Y", 2, <<3>>, "a", "u"),
        App("X", 3, <<1>>, "", "u")>> }

----------------------------------------------------------------------------
(* Object lifetime.  An object built by a load lives as long as something  *)
(* refers to it: a cache, another live object, or the caller, who keeps    *)
(* the object its last load returned and the one it kept before.  After    *)
(* every call the live built objects are numbered in the order in which    *)
(* the caches, the result and the kept object reach them, so that a heap   *)
(* slot number says nothing but which object it is within one state.       *)

IsBuilt(w, k) == k # NoObj /\ w.objs[k].origin = "built"

\* the cached objects of store t by ascending index
RECURSIVE CacheSeq(_, _)
CacheSeq(S, i) ==
    IF i >= count(S) THEN <<>>
    ELSE (IF i \in DOMAIN S.cache THEN <<S.cache[i]>> ELSE <<>>) \o CacheSeq(S, i + 1)

\* the built objects reachable from the queue `todo`, in order of discovery
RECURSIVE Visit(_, _, _)
Visit(w, seq, todo) ==
    IF todo = <<>> THEN seq
    ELSE LET k == Head(todo)
         IN IF ~IsBuilt(w, k) \/ k \in Range(seq) THEN Visit(w, seq, Tail(todo))
            ELSE Visit(w, Append(seq, k), Tail(todo) \o w.objs[k].refs)

Pos(seq, k) == CHOOSE n \in DOMAIN seq : seq[n] = k

Renumber(w, results, kept) ==
    LET napp == Cardinality({k \in DOMAIN w.objs : w.objs[k].origin = "app"})
        seq == Visit(w, <<>>, CacheSeq(w.st["X"], 0) \o CacheSeq(w.st["Y"], 0)
                              \o results \o <<kept>>)
        new(k) == IF IsBuilt(w, k) THEN napp + Pos(seq, k) ELSE k
        moved(obj) == [obj EXCEPT !.refs = [j \in DOMAIN @ |-> new(@[j])]]
    IN [objs |-> [n \in DOMAIN w.objs |->
                    IF n <= napp THEN w.objs[n]
                    ELSE IF n - napp <= Len(seq) THEN moved(w.objs[seq[n - napp]])
                    ELSE FreeSlot],
        st |-> [t \in Stores |->
                  [w.st[t] EXCEPT !.cache = [i \in DOMAIN @ |-> new(@[i])]]],
        results |-> [j \in DOMAIN results |-> new(results[j])],
        kept |-> new(kept)]

----------------------------------------------------------------------------
(* The public calls *)

World == [st |-> st, objs |-> objs, ret |-> -1, err |-> NoErr, out |-> NoAttr,
          read |-> FALSE]

\* the calls that return a list, and those that return an object
ListOps == {"find", "find_indices", "list_to_numpy", "list_from_numpy"}
ObjectOps == {"load", "find_first", "next", "load_object", "getitem"}
\* the calls that return a list of loaded objects
LoadedListOps == {"find", "getitem_list", "getitem_slice"}

\* the objects the call hands to the caller
Results(w, op) ==
    IF w.err # NoErr THEN <<>>
    ELSE IF op \in ObjectOps THEN <<w.ret>>
    ELSE IF op = "find" THEN w.ret
    ELSE <<>>

Call(w, op, s, o, arg) ==
    [op |-> op, s |-> s, o |-> o, arg |-> arg,
     ret |-> IF op \in ListOps THEN -1 ELSE w.ret,
     list |-> IF op \in ListOps /\ w.err = NoErr THEN w.ret ELSE <<>>,
     err |-> w.err,
     pre |-> IF op = "save" THEN objs[o].idx[s] ELSE NoIdx,
     hit |-> op \in {"load", "next"} /\ arg.kind = "int" /\ st[s].caching
             /\ arg.i \in DOMAIN st[s].cache,
     read |-> w.read, it |-> 0, data |-> <<>>, allow_empty |-> TRUE, dtype |-> "",
     none |-> FALSE]

\* the caller's view after the call: r is the heap and the stores with
\* the live objects numbered
Returned(r, call, keep) ==
    /\ st' = r.st
    /\ objs' = r.objs
    /\ last' = IF call.err # NoErr THEN call
               ELSE IF call.op \in ObjectOps THEN [call EXCEPT !.ret = r.results[1]]
               ELSE IF call.op \in LoadedListOps THEN [call EXCEPT !.list = r.results]
               ELSE call
    /\ held' = [keep EXCEPT !.obj = r.kept]

\* the call has ended in world w; `keep` is what the caller keeps
Commit(w, op, s, o, arg, keep) ==
    /\ w.err # "MemoryError"
    /\ Returned(Renumber(w, Results(w, op), keep.obj), Call(w, op, s, o, arg), keep)

\* what the caller holds from its latest successful load
Kept ==
    IF last.op = "load" /\ last.err = NoErr /\ last.ret # NoObj
    THEN [s |-> last.s, arg |-> last.arg, obj |-> last.ret, cleared |-> FALSE]
    ELSE held

SaveArgs == {NoneArg, StrArg("a")} \cup {IntArg(i) : i \in 0..MaxIdx}
\* load(-1) ... load(count()), and load by one of the names NN
LoadArgs(s, NN) == {IntArg(i) : i \in -1..count(st[s])} \cup {StrArg(n) : n \in NN}

\* store.save(obj) and store.save(obj, idx) for an object the application
\* made; the caller lets go of what it had loaded
Save(s, o, arg) ==
    /\ objs[o].origin = "app" /\ objs[o].cls = s
    /\ arg.kind = "int" => nexp < MaxExplicit
    /\ Commit(store_save(World, s, o, arg, 1), "save", s, o, arg, NoHeld)
    /\ nexp' = IF arg.kind = "int" THEN nexp + 1 ELSE nexp
    /\ UNCHANGED <<iters, threads, overlapped>>

\* store.save(obj) and store.save(obj, idx) on any store of the storage:
\* save does not look at the class of obj
SaveIn(s, o, arg) ==
    /\ objs[o].origin = "app"
    /\ arg.kind = "int" => nexp < MaxExplicit
    /\ Commit(store_save(World, s, o, arg, 1), "save", s, o, arg, NoHeld)
    /\ nexp' = IF arg.kind = "int" THEN nexp + 1 ELSE nexp
    /\ UNCHANGED <<iters, threads, overlapped>>

\* obj.val = v: the application changes a field of an object it made
SetField(o, v) ==
    /\ objs[o].origin = "app" /\ objs[o].val # v
    /\ st' = st
    /\ objs' = [objs EXCEPT ![o].val = v]
    /\ last' = [NoCall EXCEPT !.op = "setattr", !.o = o, !.arg = IntArg(v)]
    /\ held' = Kept
    /\ UNCHANGED <<nexp, iters, threads, overlapped>>

\* x = store.load(idx); the caller keeps the object an earlier load gave it
\* when that was a load of the same store and idx
Load(s, arg) ==
    /\ Commit(store_load(World, s, arg, 1), "load", s, NoObj, arg,
              IF Kept.s = s /\ Kept.arg = arg THEN Kept ELSE NoHeld)
    /\ UNCHANGED <<nexp, iters, threads, overlapped>>

\* store.cache_all()
CacheAll(s) ==
    /\ Commit(cache_all(World, s), "cache_all", s, NoObj, NoneArg, Kept)
    /\ UNCHANGED <<nexp, iters, threads, overlapped>>

\* store.clear_cache()
ClearCache(s) ==
    /\ Commit(clear_cache(World, s), "clear_cache", s, NoObj, NoneArg,
              IF Kept.s = s THEN [Kept EXCEPT !.cleared = TRUE] ELSE Kept)
    /\ UNCHANGED <<nexp, iters, threads, overlapped>>

\* store.find(name), store.find_indices(name), store.find_first(name) and
\* store.idx_by_name(name)
Find(s, name) ==
    /\ Commit(find(World, s, name), "find", s, NoObj, StrArg(name), Kept)
    /\ UNCHANGED <<nexp, iters, threads, overlapped>>

FindIndices(s, name) ==
    /\ Commit(find_indices(World, s, name), "find_indices", s, NoObj, StrArg(name), Kept)
    /\ UNCHANGED <<nexp, iters, threads, overlapped>>

FindFirst(s, name) ==
    /\ Commit(find_first(World, s, name), "find_first", s, NoObj, StrArg(name), Kept)
    /\ UNCHANGED <<nexp, iters, threads, overlapped>>

IdxByName(s, name) ==
    /\ Commit(idx_by_name(World, s, name), "idx_by_name", s, NoObj, StrArg(name), Kept)
    /\ UNCHANGED <<nexp, iters, threads, overlapped>>

\* store.free() and store.reserve_idx(idx)
Free(s) ==
    /\ Commit(free(World, s), "free", s, NoObj, NoneArg, Kept)
    /\ UNCHANGED <<nexp, iters, threads, overlapped>>

ReserveIdx(s, idx) ==
    /\ Commit(Return(reserve_idx(World, s, idx), -1), "reserve_idx", s, NoObj,
              IntArg(idx), Kept)
    /\ UNCHANGED <<nexp, iters, threads, overlapped>>

\* store.set_caching(caching)
SetCaching(s, caching) ==
    /\ Commit(set_caching(World, s, caching), "set_caching", s, NoObj,
              StrArg(caching), Kept)
    /\ UNCHANGED <<nexp, iters, threads, overlapped>>

\* as iterator_next, but the end is the count() of the store at the call
iterator_next_live(w, it) ==
    IF it.idx < count(w.st[it.s]) THEN store_load(w, it.s, IntArg(it.idx), 1)
    ELSE Raise(w, "StopIteration")

\* ObjectIterator.next(): the object of self.idx, or StopIteration
iterator_next(w, it) ==
    IF it.idx < it.end THEN store_load(w, it.s, IntArg(it.idx), 1)
    ELSE Raise(w, "StopIteration")

\* as iterator_advance, but self.idx stays
iterator_noadvance(it, w) == it

\* self.idx += 1, which an exception of the load does not reach
iterator_advance(it, w) == IF w.err = NoErr THEN [it EXCEPT !.idx = @ + 1] ELSE it

\* self.iterator(): ObjectIterator.__init__ with iter_range None reads
\* count()
iterator(w, s) == IF NoDimension(w, s) THEN Raise(w, "KeyError") ELSE Reads(w)

\* the ObjectIterator that iterator() made, if it made one
NewIterator(k, s) ==
    IF NoDimension(World, s) THEN iters
    ELSE [iters EXCEPT ![k] = [s |-> s, idx |-> 0, end |-> count(st[s])]]

\* it = iter(store)
Iterator(k, s) ==
    /\ Returned(Renumber(iterator(World, s), <<>>, Kept.obj),
                [Call(iterator(World, s), "iter", s, NoObj, NoneArg) EXCEPT !.it = k],
                Kept)
    /\ iters' = NewIterator(k, s)
    /\ UNCHANGED <<nexp, threads, overlapped>>

\* next(it) has ended in world w
NextReturned(k, w) ==
    /\ w.err # "MemoryError"
    /\ Returned(Renumber(w, Results(w, "next"), Kept.obj),
                [Call(w, "next", iters[k].s, NoObj, IntArg(iters[k].idx))
                    EXCEPT !.it = k], Kept)
    /\ iters' = [iters EXCEPT ![k] = iterator_advance(@, w)]
    /\ UNCHANGED <<nexp, threads, overlapped>>

IterNext(k) ==
    /\ iters[k] # NoIter
    /\ NextReturned(k, iterator_next(World, iters[k]))

\* x = store[item] for an int or a str
GetItem(s, arg) ==
    /\ Commit(getitem(World, s, arg), "getitem", s, NoObj, arg, Kept)
    /\ UNCHANGED <<nexp, iters, threads, overlapped>>

\* the loads of store[item] for a slice or a list have ended in world w1:
\* the except clause, and the list or the None the caller gets
ItemsReturned(w1, op, s, item) ==
    /\ w1.err # "MemoryError"
    /\ Returned(Renumber(getitem_except(w1),
                         IF w1.err = NoErr THEN w1.ret ELSE <<>>, Kept.obj),
                [Call(getitem_except(w1), op, s, NoObj, NoneArg)
                    EXCEPT !.data = item, !.none = (w1.err = "KeyError")],
                Kept)
    /\ UNCHANGED <<nexp, iters, threads, overlapped>>

\* x = store[start:stop:step]
GetItemSlice(s, item) ==
    ItemsReturned(getitem_slice(World, s, item), "getitem_slice", s,
                  <<item.start, item.stop, item.step>>)

\* x = store[[item, ...]]
GetItemList(s, item) ==
    ItemsReturned(getitem_loads(World, s, item, 1, <<>>), "getitem_list", s, item)

\* it = store[...]: self.iterator()
GetItemEllipsis(k, s) ==
    /\ Returned(Renumber(getitem_except(iterator(World, s)), <<>>, Kept.obj),
                [Call(getitem_except(iterator(World, s)), "getitem_ellipsis", s,
                      NoObj, NoneArg)
                    EXCEPT !.it = k, !.none = NoDimension(World, s)], Kept)
    /\ iters' = NewIterator(k, s)
    /\ UNCHANGED <<nexp, threads, overlapped>>

\* n = len(store)
StoreLen(s) ==
    /\ Commit(__len__(World, s), "len", s, NoObj, NoneArg, Kept)
    /\ UNCHANGED <<nexp, iters, threads, overlapped>>

\* the value types that are no object types
NumberTypes == {"int", "float", "bool", "index", "length"}

\* a call that converts a list has ended in world w, renumbered to r; the
\* objects in its result are the ones of a list_from_numpy of an object type
Converted(r, w, call, data, value_type, allow_empty) ==
    /\ st' = r.st
    /\ objs' = r.objs
    /\ last' = [call EXCEPT !.data = data, !.allow_empty = allow_empty,
                            !.list = IF w.err # NoErr THEN <<>>
                                     ELSE IF call.op = "list_from_numpy"
                                             /\ value_type \notin NumberTypes
                                          THEN r.results ELSE w.ret,
                            !.dtype = IF call.op = "list_to_numpy"
                                      THEN list_to_numpy_dtype(value_type) ELSE ""]
    /\ held' = [Kept EXCEPT !.obj = r.kept]
    /\ UNCHANGED <<nexp, iters, threads, overlapped>>

\* a = store.list_to_numpy(data, value_type, allow_empty)
ToNumpyReturned(w, s, data, value_type, allow_empty) ==
    Converted(Renumber(w, <<>>, Kept.obj), w,
              Call(w, "list_to_numpy", s, NoObj, StrArg(value_type)),
              data, value_type, allow_empty)

ListToNumpy(s, data, value_type, allow_empty) ==
    ToNumpyReturned(list_to_numpy(World, s, data, value_type, allow_empty),
                    s, data, value_type, allow_empty)

\* store.list_from_numpy(values, value_type, allow_empty)
FromNumpyReturned(w, s, values, value_type, allow_empty) ==
    /\ w.err # "MemoryError"
    /\ Converted(Renumber(w, IF w.err = NoErr /\ value_type \notin NumberTypes
                             THEN w.ret ELSE <<>>, Kept.obj), w,
                 Call(w, "list_from_numpy", s, NoObj, StrArg(value_type)),
                 values, value_type, allow_empty)

ListFromNumpy(s, values, value_type, allow_empty) ==
    FromNumpyReturned(list_from_numpy(World, s, values, value_type, allow_empty),
                      s, values, value_type, allow_empty)

\* self.load_object(name, idx, store), the variable holding `index` at idx
LoadObject(s, index, store) ==
    /\ Commit(load_object(World, index, store), "load_object", store, NoObj,
              IntArg(index), Kept)
    /\ UNCHANGED <<nexp, iters, threads, overlapped>>

\* ObjectStore._parse_var_type_as_np_type(var_type)
ParseVarType(var_type) ==
    /\ last' = [NoCall EXCEPT !.op = "_parse_var_type_as_np_type",
                              !.arg = StrArg(var_type),
                              !.dtype = _parse_var_type_as_np_type(var_type)]
    /\ UNCHANGED <<st, objs, held, nexp, iters, threads, overlapped>>

NextOn(SS, AA, NN) ==
    \E s \in SS :
        \/ \E o \in DOMAIN objs, arg \in AA : Save(s, o, arg)
        \/ \E arg \in LoadArgs(s, NN) : Load(s, arg)
        \/ CacheAll(s)
        \/ ClearCache(s)

\* every call on one store
Next == NextOn({"X"}, SaveArgs, Names \cup {"c"})

Spec == InitOn(Configs, Heaps) /\ [][Next]_vars

\* save(obj) and load(idx) on two stores
NextGraph == NextOn(Stores, {NoneArg}, {})

SpecGraph == InitOn(GraphConfigs, GraphHeaps) /\ [][NextGraph]_vars

\* A caching store X with names and a store Y without names; in the first
\* configuration both have uids, in the second neither has.
NameConfigs ==
    { [s \in Stores |-> IF s = "X" THEN NewStore(TRUE, TRUE, TRUE)
                                   ELSE NewStore(TRUE, FALSE, TRUE)],
      [s \in Stores |-> IF s = "X" THEN NewStore(TRUE, TRUE, FALSE)
                                   ELSE NewStore(TRUE, FALSE, FALSE)] }

\* Two objects of one name, the first with a uid.
NameHeaps ==
    { <<App("X", 1, <<>>, "a", "a"), App("X", 2, <<>>, "a", Absent)>> }

\* save(obj), load, the cache calls and the lookups by name
NextNames ==
    \/ NextOn({"X"}, {NoneArg}, {"a", "c"})
    \/ \E s \in Stores, name \in {"a", "c"} :
          \/ Find(s, name)
          \/ FindIndices(s, name)
          \/ FindFirst(s, name)
          \/ IdxByName(s, name)

SpecNames == InitOn(NameConfigs, NameHeaps) /\ [][NextNames]_vars

\* An object that holds another one: its save reserves an index and saves
\* the other object in a nested call.
FreeHeaps ==
    { <<App("X", 1, <<>>, "a", Absent), App("X", 2, <<1>>, "b", Absent)>> }

\* save(obj), load, the cache calls, free() and reserve_idx(idx)
NextFree ==
    \/ NextOn({"X"}, {NoneArg}, {})
    \/ Free("X")
    \/ \E idx \in 0..MaxReserve : ReserveIdx("X", idx)

SpecFree == InitOn(GraphConfigs, FreeHeaps) /\ [][NextFree]_vars

\* Two objects, the second holding the first.
IterHeaps ==
    { <<App("X", 1, <<>>, "a", Absent), App("X", 2, <<1>>, "a", Absent)>> }

\* save(obj), load, the cache calls and iteration with several iterators
NextIter ==
    \/ NextOn({"X"}, {NoneArg}, {})
    \/ \E k \in 1..MaxIters : Iterator(k, "X") \/ IterNext(k)

\* Stores constructed with caching=CacheLimit, and stores without cache.
IterConfigs ==
    { [s \in Stores |-> NewStoreLimited(CacheLimit, TRUE, TRUE)],
      [s \in Stores |-> NewStore(FALSE, FALSE, FALSE)] }

SpecIter == InitOn(IterConfigs, IterHeaps) /\ [][NextIter]_vars

\* One object.
AllHeaps == { <<App("X", 1, <<>>, "a", Absent)>> }

\* every call of the store: save(obj), load, the cache calls, the lookups
\* by name, free(), reserve_idx(idx) and iteration
NextAll ==
    \/ NextOn({"X"}, {NoneArg}, {"a"})
    \/ Find("X", "a")
    \/ FindIndices("X", "a")
    \/ FindFirst("X", "a")
    \/ IdxByName("X", "a")
    \/ Free("X")
    \/ \E idx \in 0..1 : ReserveIdx("X", idx)
    \/ Iterator(1, "X")
    \/ IterNext(1)
    \/ \E caching \in CachingArgs : SetCaching("X", caching)

SpecAll == InitOn(GraphConfigs, AllHeaps) /\ [][NextAll]_vars

\* An object of store X and an object of store Y.
NumpyHeaps ==
    { <<App("X", 1, <<>>, "a", Absent), App("Y", 2, <<>>, "", "u")>> }

\* lists of objects with None in them, lists of numbers, and arrays of
\* stored indices
ObjectLists == {<<NoObj, 1>>, <<2, NoObj>>}
NumberLists == {<<1, 16777217>>, <<300, -1>>}
IndexArrays == {<<-1, 0>>, <<0, -1>>}

\* save(obj), clear_cache() and the conversions of lists
NextNumpy ==
    \/ \E s \in Stores, o \in DOMAIN objs : Save(s, o, NoneArg)
    \/ \E s \in Stores : ClearCache(s)
    \/ \E s, T \in Stores, data \in ObjectLists, allow_empty \in BOOLEAN :
          ListToNumpy(s, data, T, allow_empty)
    \/ \E value_type \in NumberTypes, data \in NumberLists :
          ListToNumpy("X", data, value_type, TRUE)
    \/ \E s, T \in Stores, values \in IndexArrays, allow_empty \in BOOLEAN :
          ListFromNumpy(s, values, T, allow_empty)
    \/ \E values \in NumberLists : ListFromNumpy("X", values, "int", TRUE)
    \/ \E store \in Stores, index \in -1..0 : LoadObject("X", index, store)
    \/ \E var_type \in ValueTypes : ParseVarType(var_type)

SpecNumpy == InitOn(GraphConfigs, NumpyHeaps) /\ [][NextNumpy]_vars

\* An object of the first store that holds one of the second store.
CrossHeaps ==
    { <<App("X", 1, <<2>>, "a", Absent), App("Y", 2, <<>>, "", "u")>> }

\* the value the application gives a field
NewVal == 7

\* save(obj) of every object into every store, free() and reserve_idx(1)
NextCross ==
    \/ \E s \in Stores, o \in DOMAIN objs : SaveIn(s, o, NoneArg)
    \/ \E s \in Stores : Free(s)
    \/ \E s \in Stores : ReserveIdx(s, 1)

SpecCross == InitOn(GraphConfigs, CrossHeaps) /\ [][NextCross]_vars

\* save(obj) and save(obj, idx) of every object into every store, load(idx)
\* and a change of a field
NextJson ==
    \/ \E s \in Stores, o \in DOMAIN objs, arg \in {NoneArg, IntArg(1)} :
          SaveIn(s, o, arg)
    \/ \E s \in Stores, i \in 0..MaxIdx : Load(s, IntArg(i))
    \/ \E o \in DOMAIN objs : SetField(o, NewVal)

SpecJson == InitOn(GraphConfigs, CrossHeaps) /\ [][NextJson]_vars

----------------------------------------------------------------------------
(* save(obj) called from several threads without a lock.  A thread can be  *)
(* suspended between any two statements of saveidx.inner and               *)
(* savecache.inner; the steps below are the statements between which the   *)
(* index is read, reserved, written and cached.                            *)

\* some other thread is inside a save call
OthersRunning(t) == \E u \in Threads \ {t} : threads[u].pc # "idle"

\* the save call of thread t has ended in world w
SaveEnds(t, s, o, pre, w) ==
    /\ st' = w.st
    /\ objs' = w.objs
    /\ last' = [NoCall EXCEPT !.op = "save", !.s = s, !.o = o, !.ret = w.ret,
                              !.err = w.err, !.pre = pre]
    /\ threads' = [threads EXCEPT ![t] = NoThread]

\* thread t has read idx = self.free() in world w
SaveFree(t, s, o, w) ==
    IF w.err # NoErr THEN SaveEnds(t, s, o, NoIdx, w)
    ELSE /\ st' = w.st
         /\ threads' = [threads EXCEPT ![t] =
                [pc |-> "reserve", s |-> s, o |-> o, idx |-> w.ret, pre |-> NoIdx]]
         /\ UNCHANGED <<objs, last>>

\* thread t calls store.save(obj): an object that has an index goes on to
\* savecache.inner's part; for a new one the thread reads idx = self.free()
SaveCall(t, s, o) ==
    /\ threads[t].pc = "idle"
    /\ objs[o].origin = "app" /\ objs[o].cls = s
    /\ IF objs[o].idx[s] # NoIdx
       THEN /\ threads' = [threads EXCEPT ![t] =
                   [pc |-> "cache", s |-> s, o |-> o, idx |-> objs[o].idx[s],
                    pre |-> objs[o].idx[s]]]
            /\ UNCHANGED <<st, objs, last>>
       ELSE SaveFree(t, s, o, free(World, s))
    /\ overlapped' = (overlapped \/ OthersRunning(t))
    /\ UNCHANGED <<held, nexp, iters>>

\* thread t goes on with obj.idx[self] = idx; self.reserve_idx(idx)
SaveReserve(t) ==
    /\ threads[t].pc = "reserve"
    /\ st' = saveidx_reserve(World, threads[t].s, threads[t].o, threads[t].idx).st
    /\ objs' = saveidx_reserve(World, threads[t].s, threads[t].o, threads[t].idx).objs
    /\ threads' = [threads EXCEPT ![t].pc = "write"]
    /\ UNCHANGED <<last, held, nexp, iters, overlapped>>

\* the row of thread t is written in world w
SaveWritten(t, w) ==
    IF w.err # NoErr THEN SaveEnds(t, threads[t].s, threads[t].o, threads[t].pre, w)
    ELSE /\ st' = w.st
         /\ objs' = w.objs
         /\ threads' = [threads EXCEPT ![t].pc = "cache"]
         /\ last' = last

\* thread t goes on with func(obj, idx), the uid and the name
SaveWrite(t) ==
    /\ threads[t].pc = "write"
    /\ SaveWritten(t, saveidx_func(World, threads[t].s, threads[t].o, threads[t].idx, 1))
    /\ UNCHANGED <<held, nexp, iters, overlapped>>

\* thread t goes on with savecache.inner after func(obj, idx): it reads
\* idx = obj.idx[self], puts the object in the cache and returns idx
SaveReturn(t) ==
    /\ threads[t].pc = "cache"
    /\ SaveEnds(t, threads[t].s, threads[t].o, threads[t].pre,
                IF st[threads[t].s].caching
                THEN savecache_store(World, threads[t].s, threads[t].o,
                                     objs[threads[t].o].idx[threads[t].s])
                ELSE Return(World, threads[t].idx))
    /\ UNCHANGED <<held, nexp, iters, overlapped>>

NextRace ==
    \E t \in Threads :
        \/ \E s \in Stores, o \in DOMAIN objs : SaveCall(t, s, o)
        \/ SaveReserve(t)
        \/ SaveWrite(t)
        \/ SaveReturn(t)

SpecRace == InitOn(GraphConfigs, FreeHeaps) /\ [][NextRace]_vars

\* the slices and the lists that index the store
Slices ==
    { Slice(<<>>, <<>>, <<>>), Slice(<<>>, <<>>, <<-1>>), Slice(<<1>>, <<>>, <<>>),
      Slice(<<-1>>, <<5>>, <<>>), Slice(<<>>, <<-1>>, <<2>>), Slice(<<>>, <<>>, <<0>>) }

ItemLists ==
    { <<IntArg(1), IntArg(0)>>, <<IntArg(0), StrArg("a")>>, <<IntArg(2), StrArg("c")>> }

\* save(obj), clear_cache(), store[item], next(it) and len(store)
NextItem ==
    \/ \E o \in DOMAIN objs : Save("X", o, NoneArg)
    \/ ClearCache("X")
    \/ \E arg \in LoadArgs("X", {"a", "c"}) : GetItem("X", arg)
    \/ \E item \in Slices : GetItemSlice("X", item)
    \/ \E item \in ItemLists : GetItemList("X", item)
    \/ GetItemEllipsis(1, "X")
    \/ IterNext(1)
    \/ StoreLen("X")

\* a store that is registered with a storage in which its _init() has not
\* made the dimension and the variables
Uninitialised(S) == [S EXCEPT !.inited = FALSE]

\* A store with cache, names and uids, and one that is not initialised.
ItemConfigs ==
    { [s \in Stores |-> NewStore(TRUE, TRUE, TRUE)],
      [s \in Stores |-> Uninitialised(NewStore(TRUE, TRUE, FALSE))] }

SpecItem == InitOn(ItemConfigs, NameHeaps) /\ [][NextItem]_vars

----------------------------------------------------------------------------
(* Properties of save and load *)

\* the objects the application made
AppIds == {k \in DOMAIN objs : objs[k].origin = "app"}

\* the objects reachable from `set` over storable fields
RECURSIVE Closure(_, _)
Closure(heap, set) ==
    LET more == set \cup (UNION {Range(heap[k].refs) : k \in set} \ {NoObj})
    IN IF more = set THEN set ELSE Closure(heap, more)

\* the indices of the rows of store S that hold the data of object ob
RowsOf(S, ob) == {i \in DOMAIN S.json : S.json[i].val = ob.val /\ S.json[i].cls = ob.cls}

\* what serializing object o gives once its fields have their indices
SerializedForm(heap, o) ==
    Payload(heap[o].cls, heap[o].val,
            [k \in DOMAIN heap[o].refs |->
                LET r == heap[o].refs[k]
                IN IF r = NoObj THEN [st |-> "", i |-> -1]
                   ELSE [st |-> heap[r].cls, i |-> heap[r].idx[heap[r].cls]]])

\* object k on `heap` is the instance store prefix t caches under k's index
IsCached(heap, stores, k) ==
    LET t == heap[k].cls
        i == heap[k].idx[t]
    IN i \in DOMAIN stores[t].cache /\ stores[t].cache[i] = k

\* every storable field of object k holds the instance its store caches
RefsCached(heap, stores, k) ==
    \A j \in DOMAIN heap[k].refs :
        heap[k].refs[j] # NoObj => IsCached(heap, stores, heap[k].refs[j])

LoadedObject == last.op = "load" /\ last.err = NoErr /\ last.ret # NoObj

\* C1: Idempotent save.  save(o) on an object that already has an index in
\* the store returns that index without raising, leaves the object's index
\* as it is and changes no row of the json, name and uid columns of any
\* store (so count() stays); the first save(o) returns the index it gave o.
C1_IdempotentSave ==
    [][(last'.op = "save" /\ last'.arg = NoneArg) =>
          IF last'.pre # NoIdx
          THEN /\ last'.err = NoErr
               /\ last'.ret = last'.pre
               /\ objs'[last'.o].idx[last'.s] = last'.pre
               /\ \A t \in Stores : /\ st'[t].json = st[t].json
                                    /\ st'[t].name = st[t].name
                                    /\ st'[t].uid = st[t].uid
          ELSE last'.err = NoErr => last'.ret = objs'[last'.o].idx[last'.s]]_vars

\* C1 witness: a second save(o) has returned the index o already had
C1_Witness ==
    /\ last.op = "save" /\ last.arg = NoneArg /\ last.err = NoErr
    /\ last.pre # NoIdx /\ last.ret = last.pre
    /\ count(st[last.s]) > 0

\* C2: An object is never re-indexed.  Once an application object has an
\* index in a store, no call changes that index.
C2_NeverReindexed ==
    [][\A o \in AppIds, t \in Stores :
          objs[o].idx[t] # NoIdx => objs'[o].idx[t] = objs[o].idx[t]]_vars

\* C3: Reserve-before-write.  An object that save(obj) gives an index,
\* directly or by a nested save, gets an index that no other object of the
\* application has in that store.
C3_DistinctIndices ==
    [][(last'.op = "save" /\ last'.arg = NoneArg) =>
          \A o \in AppIds, t \in Stores :
              (objs[o].idx[t] = NoIdx /\ objs'[o].idx[t] # NoIdx) =>
                  \A p \in AppIds \ {o} : objs'[p].idx[t] # objs'[o].idx[t]]_vars

\* C3 witness: a save(obj) whose serialization saved a field into the same
\* store: the field got the index after the one reserved for obj
C3_Witness ==
    /\ last.op = "save" /\ last.arg = NoneArg /\ last.err = NoErr /\ last.pre = NoIdx
    /\ \E p \in Range(objs[last.o].refs) \ {NoObj, last.o} :
          /\ objs[p].cls = last.s
          /\ objs[p].idx[last.s] = last.ret + 1
          /\ count(st[last.s]) = last.ret + 2

\* C4: Round trip.  On a caching store a successful save of an object that
\* had no index leaves the object itself in the cache under the returned
\* index and its serialized form in the json row of that index, and a load
\* of that index right after the save returns that very object.
C4_RoundTrip ==
    [][/\ (last'.op = "save" /\ last'.err = NoErr /\ last'.pre = NoIdx
           /\ st[last'.s].caching) =>
              /\ last'.ret \in DOMAIN st'[last'.s].cache
              /\ st'[last'.s].cache[last'.ret] = last'.o
              /\ last'.ret + 1 \in DOMAIN st'[last'.s].json
              /\ st'[last'.s].json[last'.ret + 1] = SerializedForm(objs', last'.o)
       /\ (last.op = "save" /\ last.err = NoErr /\ last.pre = NoIdx
           /\ st[last.s].caching
           /\ last'.op = "load" /\ last'.s = last.s /\ last'.arg = IntArg(last.ret)) =>
              /\ last'.err = NoErr
              /\ last'.ret = last.o]_vars

\* C4 witness: load(save(o)) has returned the application's object o
C4_Witness ==
    /\ LoadedObject /\ last.hit
    /\ objs[last.ret].origin = "app"
    /\ objs[last.ret].idx[last.s] = last.arg.i
    /\ objs[last.ret].refs # <<>>

\* C5 as stated: single instance per index.  On a caching store a load(i)
\* returns the instance an earlier load(i) returned, whatever calls lie
\* between the two.
C5_SingleInstance ==
    (LoadedObject /\ last.arg.kind = "int" /\ st[last.s].caching /\ held.obj # NoObj)
        => last.ret = held.obj

\* C5 amended: on a caching store load(i) returns the instance the cache
\* holds under i, and the instance an earlier load(i) returned when neither
\* a save nor a clear_cache of the store came between the two.
C5_SingleInstanceWhileCached ==
    (LoadedObject /\ last.arg.kind = "int" /\ st[last.s].caching) =>
        /\ last.arg.i \in DOMAIN st[last.s].cache
        /\ st[last.s].cache[last.arg.i] = last.ret
        /\ (held.obj # NoObj /\ ~held.cleared) => last.ret = held.obj

\* C5 witness: two loads of one index have returned one built instance
C5_Witness ==
    /\ LoadedObject /\ last.arg.kind = "int" /\ st[last.s].caching
    /\ held.obj = last.ret /\ ~held.cleared
    /\ objs[last.ret].origin = "built"

\* C6: Index stability across loads.  The object a load(i) returns has
\* index i in the store.
C6_IndexStable ==
    (LoadedObject /\ last.arg.kind = "int") => objs[last.ret].idx[last.s] = last.arg.i

\* C7: Cycle-safe save.  save never runs into the recursion limit, and after
\* a successful save every object reachable from the saved one has an index
\* in its store and exactly one row, the row of that index.
C7_CycleSafeSave ==
    last.op = "save" =>
        /\ last.err # "RecursionError"
        /\ last.err = NoErr =>
              \A p \in Closure(objs, {last.o}) :
                  /\ objs[p].idx[objs[p].cls] # NoIdx
                  /\ RowsOf(st[objs[p].cls], objs[p]) = {objs[p].idx[objs[p].cls] + 1}

\* C7 witness: an object that reaches itself through another store was saved
C7_Witness ==
    /\ last.op = "save" /\ last.err = NoErr /\ last.pre = NoIdx
    /\ last.o \in Closure(objs, Range(objs[last.o].refs) \ {NoObj})
    /\ \E p \in Closure(objs, {last.o}) : objs[p].cls # last.s

\* C8: Cycle-safe load.  load never runs into the recursion limit.
C8_CycleSafeLoad ==
    last.op = "load" => last.err # "RecursionError"

\* C9 as stated: shared references resolve to one instance.  After a load
\* every storable field of the returned object holds the instance that a
\* load of the field's index returns, which is the instance its store caches.
C9_SharedInstance ==
    (LoadedObject /\ last.arg.kind = "int") => RefsCached(objs, st, last.ret)

\* C9 amended: after a load that built its object (the index was not in the
\* cache) every storable field of the returned object holds the instance
\* its store caches, and when every cache was empty before the load this
\* holds for every object reachable from the returned one.
C9_SharedInstanceWhenBuilt ==
    [][(last'.op = "load" /\ last'.err = NoErr /\ last'.ret # NoObj
        /\ last'.arg.kind = "int" /\ ~last'.hit) =>
          /\ RefsCached(objs', st', last'.ret)
          /\ (\A t \in Stores : st[t].cache = <<>>) =>
                \A p \in Closure(objs', {last'.ret}) :
                    IsCached(objs', st', p) /\ RefsCached(objs', st', p)]_vars

\* C9 witness: a load built C, which holds A directly and through B, and
\* both paths lead to one built instance
C9_Witness ==
    /\ LoadedObject /\ ~last.hit
    /\ Len(objs[last.ret].refs) = 2
    /\ LET a == objs[last.ret].refs[1]
           b == objs[last.ret].refs[2]
       IN /\ a # NoObj /\ b # NoObj /\ a # b
          /\ objs[a].origin = "built" /\ objs[b].origin = "built"
          /\ objs[b].refs = <<a>>

\* C10: Out-of-range load is a soft failure.  load(i) with i < 0 or
\* i >= count() and i not cached returns None, raises nothing and changes
\* nothing in any store: columns, cache, name index and reserved set.
C10_OutOfRangeLoad ==
    [][(/\ last'.op = "load" /\ last'.arg.kind = "int" /\ ~last'.hit
        /\ (last'.arg.i < 0 \/ last'.arg.i >= count(st[last'.s]))) =>
          /\ last'.ret = NoObj
          /\ last'.err = NoErr
          /\ st' = st]_vars

\* C10 witness: load(count()) on a store that has rows returned None
C10_Witness ==
    /\ last.op = "load" /\ last.arg = IntArg(count(st[last.s]))
    /\ count(st[last.s]) > 0
    /\ last.ret = NoObj /\ last.err = NoErr

\* C15: save(obj, idx) with a string idx raises an error, and does so
\* before any state changes: the object gets no index, no index is
\* reserved, count() and all columns and the cache are as before the call.
C15_StringIdxSaveRaises ==
    [][(last'.op = "save" /\ last'.arg.kind = "str") =>
          /\ last'.err = "ValueError"
          /\ st' = st
          /\ \A o \in AppIds : objs'[o] = objs[o]]_vars

\* C15 witness: save(obj, 'a') raised on a store that holds rows and cache
\* entries, for an object that has no index
C15_Witness ==
    /\ last.op = "save" /\ last.arg.kind = "str" /\ last.err = "ValueError"
    /\ count(st[last.s]) > 0 /\ DOMAIN st[last.s].cache # {}
    /\ objs[last.o].idx[last.s] = NoIdx

\* C16: Re-saving under a conflicting explicit index fails hard.  If obj
\* already has index i in the store, save(obj, idx=j) with j # i raises an
\* error to the caller; and save(obj2, idx=i) for an index i that already
\* holds a different object raises or leaves the row of i as it is.
C16_ConflictingIdxRaises ==
    [][(last'.op = "save" /\ last'.arg.kind = "int") =>
          /\ (last'.pre # NoIdx /\ last'.pre # last'.arg.i) => last'.err # NoErr
          /\ (\E p \in AppIds \ {last'.o} : objs[p].idx[last'.s] = last'.arg.i) =>
                \/ last'.err # NoErr
                \/ /\ last'.arg.i + 1 \in DOMAIN st[last'.s].json
                   /\ st'[last'.s].json[last'.arg.i + 1] =
                         st[last'.s].json[last'.arg.i + 1]]_vars

\* C17: On a name-enabled store, save(obj) of an object whose _name is None
\* raises AttributeError and never writes a value into the name column for
\* that object: the row of the object's index in the name column is as
\* before the call or, if the call added it, holds the fill value ''.
C17_NoneNameRaises ==
    [][(/\ last'.op = "save" /\ last'.arg = NoneArg
        /\ st[last'.s].has_name
        /\ objs[last'.o].name = pyNone) =>
          /\ last'.err = "AttributeError"
          /\ LET i == objs'[last'.o].idx[last'.s] + 1
             IN i \in DOMAIN st'[last'.s].name =>
                  IF i \in DOMAIN st[last'.s].name
                  THEN st'[last'.s].name[i] = st[last'.s].name[i]
                  ELSE st'[last'.s].name[i] = ""]_vars

\* index i of store S has a written row and no cache entry
Evicted(S, i) ==
    /\ S.caching
    /\ i + 1 \in DOMAIN S.json /\ S.json[i + 1] # Unwritten
    /\ i \notin DOMAIN S.cache

\* C18: Eviction is transparent.  If the cache entry of a written index i
\* is dropped, the next load(i) does not raise, re-reads the row from the
\* backing store, returns an object with index i and the stored payload,
\* and puts it back into the cache under key i.
C18_EvictionTransparent ==
    [][(/\ last'.op = "load" /\ last'.arg.kind = "int"
        /\ Evicted(st[last'.s], last'.arg.i)) =>
          /\ last'.err = NoErr
          /\ last'.read
          /\ last'.ret \in DOMAIN objs'
          /\ objs'[last'.ret].idx[last'.s] = last'.arg.i
          /\ objs'[last'.ret].val = st[last'.s].json[last'.arg.i + 1].val
          /\ objs'[last'.ret].cls = st[last'.s].json[last'.arg.i + 1].cls
          /\ last'.arg.i \in DOMAIN st'[last'.s].cache
          /\ st'[last'.s].cache[last'.arg.i] = last'.ret]_vars

\* load(name) on store S resolves to an index that S caches: the index the
\* name has in the name index once the names of the store are loaded
NameHit(S, name) ==
    /\ S.caching /\ S.has_name
    /\ name \in DOMAIN update_name_cache(S).name_idx
    /\ update_name_cache(S).name_idx[name][1] \in DOMAIN S.cache

\* the last call was a load that found its index in the cache
HitReturned(S, i) == last'.err = NoErr /\ last'.ret = S.cache[i]

----------------------------------------------------------------------------
(* Properties of the lookups by name *)

\* the indices of the rows of the name column of store S that hold name
NamedRows(S, name) == {i - 1 : i \in {k \in DOMAIN S.name : S.name[k] = name}}

\* the last call was a lookup of a name on a name-enabled store
NameLookup(op) ==
    /\ last.op = op /\ last.s \in Stores /\ last.arg.kind = "str"
    /\ st[last.s].has_name

\* C11: find returns every match.  On a name-enabled store, after two or
\* more different objects were saved with the same non-empty name,
\* find(name) returns all of them (one object for every row that holds the
\* name) and find_indices(name) returns all of their indices.
C11_FindEveryMatch ==
    /\ (NameLookup("find_indices") /\ last.err = NoErr) =>
          NamedRows(st[last.s], last.arg.s) \subseteq Range(last.list)
    /\ (NameLookup("find") /\ last.err = NoErr) =>
          \A i \in NamedRows(st[last.s], last.arg.s) :
             \E k \in DOMAIN last.list :
                /\ last.list[k] \in DOMAIN objs
                /\ objs[last.list[k]].idx[last.s] = i

\* the smallest member of a non-empty set of indices
Lowest(rows) == CHOOSE i \in rows : \A j \in rows : i <= j

\* C12: An ambiguous name resolves to the first-saved object.  On a
\* name-enabled store where several objects share a name, find_first(name)
\* and load(name) both return the object with the lowest index among them,
\* without raising.
C12_FirstSavedWins ==
    ((NameLookup("find_first") \/ NameLookup("load"))
        /\ Cardinality(NamedRows(st[last.s], last.arg.s)) > 1) =>
      /\ last.err = NoErr
      /\ last.ret \in DOMAIN objs
      /\ objs[last.ret].idx[last.s] = Lowest(NamedRows(st[last.s], last.arg.s))

\* C13: Lookup of an absent name gives an empty result.  On a name-enabled
\* store, for a name that no stored object has, find(name) returns [],
\* find_indices(name) returns [] and find_first(name) returns None; none of
\* them raises.
C13_AbsentNameEmpty ==
    /\ ((NameLookup("find") \/ NameLookup("find_indices"))
          /\ NamedRows(st[last.s], last.arg.s) = {}) =>
            (last.err = NoErr /\ last.list = <<>>)
    /\ (NameLookup("find_first") /\ NamedRows(st[last.s], last.arg.s) = {}) =>
            (last.err = NoErr /\ last.ret = NoObj)

\* C14: Name resolution on a store that is not name-enabled fails hard.
\* idx_by_name(name), find(name) and find_first(name) each raise an error
\* to the caller instead of returning a value when the store was not
\* configured as name-enabled.
C14_UnnamedStoreRaises ==
    (/\ last.op \in {"idx_by_name", "find", "find_first"}
     /\ last.s \in Stores
     /\ ~st[last.s].has_name) => last.err # NoErr

----------------------------------------------------------------------------
(* Properties of the index allocation *)

\* C20: free() returns the smallest index i >= count() that is not in the
\* reserved set; it never returns an index that is currently reserved or
\* that is below count(), and calling it twice with no operation in between
\* returns the same value.
C20_FreeSmallestUnreserved ==
    [][(last'.op = "free") =>
          /\ last'.err = NoErr
          /\ last'.ret >= count(st[last'.s])
          /\ last'.ret \notin st[last'.s]._free
          /\ last'.ret \notin st'[last'.s]._free
          /\ \A i \in count(st[last'.s])..(last'.ret - 1) : i \in st[last'.s]._free
          /\ (last.op = "free" /\ last.s = last'.s) => last'.ret = last.ret]_vars

\* C20 witness: free() on a store that has rows skipped the reserved index
\* count() and returned a larger one
C20_Witness ==
    /\ last.op = "free" /\ last.err = NoErr
    /\ count(st[last.s]) > 0
    /\ last.ret > count(st[last.s])
    /\ count(st[last.s]) \in st[last.s]._free

\* the application objects that have an index in store s
SavedInto(s) == {o \in AppIds : objs[o].idx[s] # NoIdx}

\* C21: count() equals the number of objects ever saved.  In every state in
\* which no save is in progress, count() (= len(store)) equals the number
\* of distinct objects that have been saved into the store, for any
\* sequence of completed save calls (with or without explicit idx) and
\* reserve_idx calls.
C21_CountIsNumberSaved ==
    \A s \in Stores : count(st[s]) = Cardinality(SavedInto(s))

----------------------------------------------------------------------------
(* Properties of the table and of iteration *)

\* the json, name and uid columns of store S
Columns(S) == <<S.json, S.name, S.uid>>

\* C22: The table only grows.  Over any sequence of operations count()
\* never decreases, only save can increase it, and load, find, find_first,
\* idx_by_name, cache_all, clear_cache, free, reserve_idx and iteration
\* leave count() and every backing-store column unchanged.
C22_TableOnlyGrows ==
    [][\A s \in Stores :
          /\ count(st'[s]) >= count(st[s])
          /\ last'.op # "save" =>
                /\ count(st'[s]) = count(st[s])
                /\ Columns(st'[s]) = Columns(st[s])]_vars

\* C22 witness: an iterator has returned an object of a store that has rows
C22_Witness ==
    /\ last.op = "next" /\ last.err = NoErr /\ last.ret # NoObj
    /\ count(st[last.s]) > 0

\* the step has the outcome of a load that ended in world w and was
\* renumbered to r: the stores, the heap, the error and the object returned
LoadOutcome(r, w) ==
    /\ st' = r.st
    /\ objs' = r.objs
    /\ last'.err = w.err
    /\ w.err = NoErr => last'.ret = r.results[1]

LoadOutcomeOf(w) == LoadOutcome(Renumber(w, Results(w, "load"), Kept.obj), w)

\* next(it) on iterator k: below its end it is load(idx) and moves the
\* iterator on by one; at its end it raises StopIteration and changes nothing
IterStep(k) ==
    /\ k \in DOMAIN iters /\ iters[k] # NoIter
    /\ IF iters[k].idx < iters[k].end
       THEN /\ last'.arg = IntArg(iters[k].idx)
            /\ LoadOutcomeOf(store_load(World, iters[k].s, IntArg(iters[k].idx), 1))
            /\ iters' = [iters EXCEPT ![k].idx = IF last'.err = NoErr THEN @ + 1 ELSE @]
       ELSE /\ last'.err = "StopIteration"
            /\ st' = st
            /\ iters' = iters

\* C23: Iteration is finite, ordered and restartable.  Iterating a store
\* with n = count() yields exactly load(0), load(1), ..., load(n-1) in that
\* order and then stops; each index is loaded only when it is reached
\* (cache-aware), and every new iteration of the store starts again at
\* index 0 independently of earlier iterators.
C23_IterationOrdered ==
    [][/\ last'.op = "iter" =>
            /\ last'.it \in DOMAIN iters
            /\ iters' = [iters EXCEPT ![last'.it] =
                            [s |-> last'.s, idx |-> 0, end |-> count(st[last'.s])]]
            /\ st' = st
       /\ last'.op = "next" => IterStep(last'.it)
       /\ \A k \in DOMAIN iters' : iters'[k].idx <= iters'[k].end]_vars

\* C23 witness: an iterator over two rows has yielded both and then
\* stopped, while another iterator of the store is at its second index
C23_Witness ==
    /\ last.op = "next" /\ last.err = "StopIteration"
    /\ last.it \in DOMAIN iters /\ iters[last.it].idx = 2 /\ iters[last.it].end = 2
    /\ \E k \in DOMAIN iters : iters[k].idx = 1 /\ iters[k].end = 2

----------------------------------------------------------------------------
(* Properties of the cache *)

\* C24: cache_all loads everything.  Whenever cache_all() returns, every
\* index in [0, count()) is present in the cache, for any preceding
\* sequence of save, load, clear_cache, set_caching and cache_all calls; in
\* particular cache_all is skipped only when the cache really holds every
\* stored index.
C24_CacheAllLoadsAll ==
    (last.op = "cache_all" /\ last.err = NoErr) =>
        \A i \in 0..(count(st[last.s]) - 1) : i \in DOMAIN st[last.s].cache

\* worlds a and b have the same stores and the same heap
SameWorld(a, b) == a.err = b.err /\ a.st = b.st /\ a.objs = b.objs

\* cache_all() on store s has ended in world w1 without raising: every
\* entry the cache had before is still the same instance, and a second
\* cache_all() changes nothing
CacheAllIdempotent(w1, s) ==
    w1.err = NoErr =>
        /\ \A i \in DOMAIN st[s].cache :
              i \in DOMAIN w1.st[s].cache /\ w1.st[s].cache[i] = st[s].cache[i]
        /\ SameWorld(cache_all(w1, s), w1)

\* C25: cache_all is idempotent.  Calling cache_all() twice in a row leaves
\* the cache, the name index and all cached object instances exactly as
\* after the first call, and a cache_all() call never replaces an instance
\* that is already cached under an index.  Stated for a cache_all() call
\* made in any reachable state.
C25_CacheAllIdempotent ==
    \A s \in Stores : CacheAllIdempotent(cache_all(World, s), s)

\* C25 witness: a cache_all() was skipped on a store whose cache holds
\* several entries, one of them an instance the store has built
C25_Witness ==
    /\ last.op = "cache_all" /\ last.err = NoErr /\ ~last.read
    /\ st[last.s]._cached_all
    /\ Cardinality(DOMAIN st[last.s].cache) > 1
    /\ \E i \in DOMAIN st[last.s].cache : objs[st[last.s].cache[i]].origin = "built"

\* C26: Bounded cache.  When a store is configured with an integer caching
\* value n, the cache never holds more than n entries in any reachable
\* state.
C26_BoundedCache ==
    \A s \in Stores :
        st[s].caching_n > 0 => Cardinality(DOMAIN st[s].cache) <= st[s].caching_n

----------------------------------------------------------------------------
(* Properties of the conversions *)

\* every object of the list `data` has an index in store T
StoredIn(data, T) ==
    \A k \in DOMAIN data : data[k] # NoObj => objs[data[k]].idx[T] # NoIdx

\* the list `result` holds None where `data` holds None and an object with
\* the index and the value of the object of `data` elsewhere
SameObjects(result, data, T) ==
    /\ DOMAIN result = DOMAIN data
    /\ \A k \in DOMAIN data :
          IF data[k] = NoObj THEN result[k] = NoObj
          ELSE /\ result[k] \in DOMAIN objs'
               /\ objs'[result[k]].idx[T] = objs[data[k]].idx[T]
               /\ objs'[result[k]].val = objs[data[k]].val

\* C27: Sentinel round-trip.  For any list of object references that may
\* contain None, all of them stored in the store of type T,
\* list_to_numpy(data, T) with allow_empty=True encodes None as index -1
\* and every object as its index in T (never None as 0), and
\* list_from_numpy of that array returns None at exactly the positions
\* where data held None and the stored object elsewhere; load_object
\* returns None for a negative stored index.
C27_SentinelRoundTrip ==
    [][/\ (/\ last'.op = "list_to_numpy" /\ last'.arg.s \in Stores
           /\ last'.allow_empty /\ StoredIn(last'.data, last'.arg.s)) =>
             /\ last'.err = NoErr
             /\ DOMAIN last'.list = DOMAIN last'.data
             /\ \A k \in DOMAIN last'.data :
                   last'.list[k] = IF last'.data[k] = NoObj THEN -1
                                   ELSE objs[last'.data[k]].idx[last'.arg.s]
       /\ (/\ last.op = "list_to_numpy" /\ last.arg.s \in Stores
           /\ last.allow_empty /\ last.err = NoErr
           /\ StoredIn(last.data, last.arg.s)
           /\ last'.op = "list_from_numpy" /\ last'.arg = last.arg
           /\ last'.allow_empty /\ last'.data = last.list) =>
             /\ last'.err = NoErr
             /\ SameObjects(last'.list, last.data, last.arg.s)
       /\ (last'.op = "load_object" /\ last'.arg.i < 0) =>
             (last'.err = NoErr /\ last'.ret = NoObj)]_vars

\* the element type the encoding policy gives a declared value type
PolicyType(value_type) ==
    CASE value_type = "float" -> "float32"
      [] value_type \in {"int", "index", "length"} -> "int32"
      [] value_type = "bool" -> "uint8"
      [] OTHER -> "str"

\* C28: Fixed-width encoding policy.  The element type chosen for each
\* declared value type is float -> 32-bit float, int / index / length ->
\* 32-bit signed integer, bool -> 8-bit unsigned, both in
\* _parse_var_type_as_np_type and in list_to_numpy; in particular
\* list_to_numpy with value_type 'int' produces 32-bit signed integers, the
\* integers of the list.
C28_EncodingPolicy ==
    /\ last.op = "_parse_var_type_as_np_type" =>
          last.dtype = PolicyType(last.arg.s)
    /\ (last.op = "list_to_numpy" /\ last.arg.s \in NumberTypes) =>
          /\ last.dtype = PolicyType(last.arg.s)
          /\ last.arg.s = "int" => last.list = last.data

\* the objects the cache of store s holds
Cached(s) == {st[s].cache[i] : i \in DOMAIN st[s].cache}

\* C29: Names become fixed on first save or load.  On a name-enabled
\* store, every object that has been saved successfully, and every object
\* that was brought into memory from the store by any path (load by index
\* or name, iteration, cache_all), has had its name fixed before it is
\* returned to or visible to the caller.
C29_NamesFixed ==
    /\ (last.op = "save" /\ last.err = NoErr /\ st[last.s].has_name) =>
          objs[last.o].fixed
    /\ (last.op \in {"load", "next"} /\ last.err = NoErr
          /\ last.ret # NoObj /\ st[last.s].has_name) =>
          objs[last.ret].fixed
    /\ \A s \in Stores :
          st[s].has_name => \A o \in Cached(s) : objs[o].fixed

\* store[item] gave what load(item), ending in world w, gives; a KeyError
\* of the load is the result None
SameAsLoad(w) ==
    /\ last'.err = IF w.err = "KeyError" THEN NoErr ELSE w.err
    /\ w.err = "KeyError" => last'.ret = NoObj
    /\ w.err = NoErr =>
          Renumber(w, <<w.ret>>, Kept.obj) =
              [objs |-> objs', st |-> st', results |-> <<last'.ret>>,
               kept |-> held'.obj]

\* [load(k) for k in args], from world w on
RECURSIVE Loads(_, _, _, _)
RECURSIVE LoadsOn(_, _, _, _)
Loads(w, s, args, acc) ==
    IF args = <<>> THEN Return(w, acc)
    ELSE LoadsOn(store_load(w, s, Head(args), 1), s, Tail(args), acc)

LoadsOn(w1, s, rest, acc) ==
    IF w1.err # NoErr THEN w1 ELSE Loads(w1, s, rest, Append(acc, w1.ret))

\* store[item] gave the list that the loads, ending in world w, give; a
\* KeyError of a load is the result None
SameAsLoads(w) ==
    /\ last'.err = IF w.err = "KeyError" THEN NoErr ELSE w.err
    /\ last'.none = (w.err = "KeyError")
    /\ w.err = NoErr =>
          Renumber(w, w.ret, Kept.obj) =
              [objs |-> objs', st |-> st', results |-> last'.list,
               kept |-> held'.obj]

\* the indices of range(length)[item]
SliceIndices(item, length) ==
    range(slice_start(item, length), slice_stop(item, length), slice_step(item))

\* the slice that the call got
SliceGiven == Slice(last'.data[1], last'.data[2], last'.data[3])

\* 0, 1, ..., n - 1 and n - 1, ..., 1, 0
Upto(n) == [k \in 1..n |-> IntArg(k - 1)]
Downfrom(n) == [k \in 1..n |-> IntArg(n - k)]

\* C30: Query surface.  store[i] for an int or str i equals load(i);
\* store[a:b:c] equals [load(k) for k in the slice's indices normalised
\* against count()]; store[list] equals the element-wise loads; store[...]
\* is a fresh full iterator; len(store) equals count(); a KeyError raised
\* while loading is turned into the result None, while other errors
\* propagate.
C30_QuerySurface ==
    [][/\ last'.op = "getitem" =>
             SameAsLoad(store_load(World, last'.s, last'.arg, 1))
       /\ (last'.op = "getitem_slice" /\ ~st[last'.s].inited) =>
             (last'.err = NoErr /\ last'.none)
       /\ (last'.op = "getitem_slice" /\ st[last'.s].inited
             /\ slice_step(SliceGiven) # 0) =>
             /\ SameAsLoads(Loads(Reads(World), last'.s,
                                  SliceIndices(SliceGiven, count(st[last'.s])),
                                  <<>>))
             /\ \A k \in DOMAIN SliceIndices(SliceGiven, count(st[last'.s])) :
                    SliceIndices(SliceGiven, count(st[last'.s]))[k].i
                        \in 0..(count(st[last'.s]) - 1)
             /\ SliceGiven = Slice(<<>>, <<>>, <<>>) =>
                    SliceIndices(SliceGiven, count(st[last'.s]))
                        = Upto(count(st[last'.s]))
             /\ SliceGiven = Slice(<<>>, <<>>, <<-1>>) =>
                    SliceIndices(SliceGiven, count(st[last'.s]))
                        = Downfrom(count(st[last'.s]))
       /\ last'.op = "getitem_list" =>
             SameAsLoads(Loads(World, last'.s, last'.data, <<>>))
       /\ last'.op = "getitem_ellipsis" =>
             /\ last'.err = NoErr
             /\ last'.none = ~st[last'.s].inited
             /\ st[last'.s].inited =>
                    iters'[last'.it] =
                       [s |-> last'.s, idx |-> 0, end |-> count(st[last'.s])]
             /\ st' = st
       /\ last'.op = "len" =>
             /\ last'.err = IF st[last'.s].inited THEN NoErr ELSE "KeyError"
             /\ st[last'.s].inited => last'.ret = count(st[last'.s])
             /\ st' = st
       /\ last'.op \in {"getitem", "getitem_slice", "getitem_list"} =>
             last'.err # "KeyError"]_vars

\* C30 witness: store[::-1] on a store of two objects returned the object
\* of index 1 and then the object of index 0
C30_Witness ==
    /\ last.op = "getitem_slice" /\ last.err = NoErr /\ ~last.none
    /\ last.data = <<<<>>, <<>>, <<-1>>>>
    /\ Len(last.list) = 2
    /\ objs[last.list[1]].idx[last.s] = 1
    /\ objs[last.list[2]].idx[last.s] = 0

\* the objects that the objects of `todo` hold, and `todo` and `seen`
RECURSIVE Reach(_, _)
Reach(seen, todo) ==
    IF todo = {} THEN seen
    ELSE Reach(seen \cup todo,
               (UNION {Range(objs[k].refs) : k \in todo}) \ (seen \cup todo \cup {NoObj}))

\* the objects of class t that a save of o saves in nested calls: those
\* that o holds, directly or through other objects, when o has to be
\* serialized
NestedInto(o, t) ==
    IF objs[o].json # NoAttr THEN {}
    ELSE {k \in Reach({}, Range(objs[o].refs) \ {NoObj}) : objs[k].cls = t}

\* C31: Reservations are scoped to one store.  save, reserve_idx and free
\* on store X never change the reserved set, cache, name index or count()
\* of a different store Y, except for rows that a nested save of a
\* referenced object explicitly writes into Y (such a save changes no row
\* that Y had); an object may hold independent indices in X and Y: a call
\* on X changes the index in Y of no object but those saved in nested calls.
C31_ReservationsScoped ==
    [][\A t \in Stores :
          /\ (last'.op \in {"free", "reserve_idx"} /\ last'.s # t) =>
                (st'[t] = st[t] /\ objs' = objs)
          /\ (last'.op = "save" /\ last'.s # t) =>
                /\ NestedInto(last'.o, t) = {} => st'[t] = st[t]
                /\ \A i \in DOMAIN st[t].json :
                      /\ i \in DOMAIN st'[t].json
                      /\ st'[t].json[i] = st[t].json[i]
                /\ \A k \in DOMAIN objs :
                      objs'[k].idx[t] # objs[k].idx[t] => k \in NestedInto(last'.o, t)]_vars

\* C31 witness: the object that the last call saved into X has index 1 in X
\* and index 0 in Y, the object it holds has index 1 in Y, and the reserved
\* sets of X and Y differ
C31_Witness ==
    /\ last.op = "save" /\ last.s = "X" /\ last.err = NoErr
    /\ objs[last.o].idx["X"] = 1 /\ objs[last.o].idx["Y"] = 0
    /\ objs[last.o].refs # <<>>
    /\ objs[objs[last.o].refs[1]].idx["Y"] = 1
    /\ st["Y"]._free # st["X"]._free

\* the last call, a save, wrote a row for its object
RowWritten ==
    /\ last'.op = "save" /\ last'.err = NoErr
    /\ ~(last'.arg.kind = "none" /\ last'.pre # NoIdx)

\* C32: The serialized form is computed once and reused.  When an object
\* already carries a json attribute, save_json writes that stored string
\* without calling the serializer again, so every row ever written for an
\* object (in this or another store, before or after the object's fields
\* changed) holds the same payload; load_json attaches the row's string as
\* the loaded object's json.
C32_SerializedOnce ==
    [][/\ \A o \in DOMAIN objs :
             (objs[o].origin = "app" /\ objs[o].json # NoAttr) =>
                objs'[o].json = objs[o].json
       /\ RowWritten =>
             st'[last'.s].json[objs'[last'.o].idx[last'.s] + 1] = objs'[last'.o].json
       /\ (last'.op = "load" /\ last'.err = NoErr /\ last'.ret # NoObj
             /\ ~last'.hit) =>
             objs'[last'.ret].json = st[last'.s].json[last'.arg.i + 1]]_vars

\* C32 witness: the last save wrote a row for an object whose field had
\* changed since it was serialized; the row holds the payload of the row
\* that the object has in the other store, with the former value
C32_Witness ==
    /\ last.op = "save" /\ last.err = NoErr /\ last.pre = NoIdx /\ last.s = "Y"
    /\ objs[last.o].val = NewVal
    /\ objs[last.o].idx["X"] # NoIdx
    /\ st["Y"].json[objs[last.o].idx["Y"] + 1].val # NewVal
    /\ st["Y"].json[objs[last.o].idx["Y"] + 1]
          = st["X"].json[objs[last.o].idx["X"] + 1]

\* C33: A failing save is atomic.  Whenever save raises (string idx, or a
\* nameable object whose _name is None), the state is the same as before
\* the call: the object has no index in the store, no index was added to
\* the reserved set, count() is unchanged and no payload, uid or name row
\* was written.
C33_FailingSaveAtomic ==
    [][(last'.op = "save" /\ last'.err \in {"ValueError", "AttributeError"}) =>
          /\ st' = st
          /\ \A o \in AppIds : objs'[o] = objs[o]]_vars

\* C34: Cache keys agree with object indices.  In every reachable state of
\* a cache-enabled store, for every integer key i in the cache, the cached
\* object's index in this store equals i, and i < count(); this holds after
\* any sequence of save (with or without explicit idx), load, cache_all
\* and clear_cache.
C34_CacheKeysAgree ==
    \A s \in Stores :
        st[s].caching =>
            \A i \in DOMAIN st[s].cache :
                /\ objs[st[s].cache[i]].idx[s] = i
                /\ i < count(st[s])

\* C35: No unwritten rows at rest.  In every state in which no save is in
\* progress, every index in [0, count()) holds a payload that some save
\* wrote, so load(i) for i < count() never reads an unwritten row; this
\* holds for any sequence of save (with or without explicit idx, including
\* saves that raised), reserve_idx and free calls.
C35_NoUnwrittenRows ==
    \A s \in Stores : \A i \in DOMAIN st[s].json : st[s].json[i] # Unwritten

\* C36: The iteration bound is fixed when the iterator is created.  An
\* iterator obtained while count() = n yields at most n objects: its end is
\* n from its creation on, every object it yields moves it on by one, and at
\* its end it stops whatever count() is by then, so objects saved after its
\* creation are not visited by it, whereas an iterator created afterwards
\* has the new count() as its end.
C36_IterationBoundFixed ==
    [][/\ \A k \in DOMAIN iters :
             IF last'.op = "iter" /\ last'.it = k
             THEN iters'[k] = [s |-> last'.s, idx |-> 0, end |-> count(st[last'.s])]
             ELSE iters'[k].end = iters[k].end
       /\ last'.op = "next" =>
             IF iters[last'.it].idx < iters[last'.it].end
             THEN /\ last'.arg = IntArg(iters[last'.it].idx)
                  /\ last'.err = NoErr =>
                        iters'[last'.it].idx = iters[last'.it].idx + 1
             ELSE /\ last'.err = "StopIteration"
                  /\ iters'[last'.it] = iters[last'.it]
       /\ \A k \in DOMAIN iters' : iters'[k].idx <= iters'[k].end]_vars

\* C36 witness: an iterator made while count() was 1 has stopped after one
\* object though count() is 2 now, and an iterator made later has yielded
\* two objects
C36_Witness ==
    /\ last.op = "next" /\ last.err = "StopIteration"
    /\ iters[last.it].idx = 1 /\ iters[last.it].end = 1
    /\ count(st[last.s]) = 2
    /\ \E k \in DOMAIN iters : iters[k].idx = 2 /\ iters[k].end = 2

\* C38: caching=False disables caching completely.  On a store constructed
\* with caching=False, save never inserts the object into the cache and
\* load never returns a cached instance, so every load(i) of a written
\* index reads the backing store and builds a new object; save still
\* returns the assigned index.
C38_CachingOff ==
    [][(last'.s \in Stores /\ ~st[last'.s].caching) =>
          /\ last'.op = "save" => st'[last'.s].cache = st[last'.s].cache
          /\ (last'.op = "save" /\ last'.err = NoErr) =>
                /\ last'.ret # NoIdx
                /\ last'.ret = objs'[last'.o].idx[last'.s]
          /\ last'.op = "load" =>
                /\ ~last'.hit
                /\ st'[last'.s].cache = st[last'.s].cache
          /\ (last'.op = "load" /\ last'.err = NoErr /\ last'.ret # NoObj) =>
                /\ last'.read
                /\ objs'[last'.ret].origin = "built"
                /\ \A t \in Stores : last'.ret \notin Range(st'[t].cache)
                /\ held'.obj # last'.ret]_vars

\* C38 witness: on a store without caching that holds saved rows, a load
\* of an index has returned an object that is not the one the caller kept
\* from an earlier load of that index
C38_Witness ==
    /\ last.op = "load" /\ last.err = NoErr /\ last.ret # NoObj
    /\ ~st[last.s].caching
    /\ held.obj # NoObj /\ held.obj # last.ret
    /\ held.s = last.s /\ held.arg = last.arg

\* the last call was a load by a name for which no index can be resolved:
\* the store is not name-enabled, or it has no caching, or no row of its
\* name column holds the name
Unresolvable ==
    /\ last'.op = "load" /\ last'.arg.kind = "str"
    /\ \/ ~st[last'.s].has_name
       \/ ~st[last'.s].caching
       \/ last'.arg.s \notin Range(st[last'.s].name)

NotInNameIndex ==
    /\ last'.op = "load" /\ last'.arg.kind = "str"
    /\ \/ ~st[last'.s].has_name
       \/ ~st[last'.s].caching
       \/ last'.arg.s \notin DOMAIN update_name_cache(st[last'.s]).name_idx

SharedIndex(s) ==
    \E o \in AppIds, p \in AppIds :
        o # p /\ objs[o].idx[s] # NoIdx /\ objs[o].idx[s] = objs[p].idx[s]

\* C37: Unlocked concurrent saves race on index allocation.  Two objects
\* share one index in a store only if a save call began while another had
\* not returned: when every save(obj) runs to completion before the next
\* one starts, no two objects have the same index.
C37_SavesRaceOnIndex ==
    \A s \in Stores : SharedIndex(s) => overlapped

\* C37 witness: two threads both read free() = 0 before either reserved it;
\* both calls have returned 0, both objects carry index 0, and the one row
\* of the store holds the serialized form of only one of them.
C37_Witness ==
    /\ overlapped
    /\ \A t \in Threads : threads[t].pc = "idle"
    /\ last.op = "save" /\ last.err = NoErr /\ last.ret = 0 /\ last.pre = NoIdx
    /\ count(st[last.s]) = 1
    /\ \E p \in AppIds \ {last.o} :
          /\ objs[p].idx[last.s] = 0 /\ objs[last.o].idx[last.s] = 0
          /\ objs[p].json # objs[last.o].json
          /\ st[last.s].json[1] \in {objs[p].json, objs[last.o].json}

====
